---------------------------- MODULE Spec2Model ----------------------------
(***************************************************************************)
(* Search planning and caching of the Lumina backend:                      *)
(*   backend/agents/search_router.py  (SearchCache, SearchRouter)          *)
(*   backend/agents/search_agent.py   (WebSearchAgent)                     *)
(*   backend/tools/cost_tracking.py   (TavilyUsage)                        *)
(*   backend/graph/orchestrator.py    (ResearchOrchestrator)               *)
(*                                                                         *)
(* Strings are sequences of one-character strings, so that strip(),        *)
(* lower() and the f-string of the cache key are computed, not assumed.    *)
(* Relevance scores are in tenths (0.5 is 5).                              *)
(***************************************************************************)
EXTENDS Integers, Sequences, FiniteSets, TLC

(***************************************************************************)
(* Bounds of the model.                                                    *)
(***************************************************************************)
\* SearchCache(ttl, max_size): the configuration of the cache under check.
Ttl == 1
MaxSize == 2
\* The virtual clock runs from 0 to MaxTime.
MaxTime == 2
\* At most MaxCalls provider calls are made.
MaxCalls == 2
\* Hand-built plans ask for 0 to MaxNumQueries queries.
MaxNumQueries == 4
\* A request is followed through at most MaxPasses passes of the retry edge.
MaxPasses == 4

(***************************************************************************)
(* Strings.                                                                *)
(***************************************************************************)
Range(s) == {s[i] : i \in 1..Len(s)}

\* str.lower() on the model's alphabet.
LowerChar(c) ==
    CASE c = "A" -> "a"
      [] c = "B" -> "b"
      [] c = "I" -> "i"
      [] c = "U" -> "u"
      [] OTHER -> c

Lower(s) == [i \in 1..Len(s) |-> LowerChar(s[i])]

IsSpace(c) == c \in {" ", "\t", "\n"}

RECURSIVE LStrip(_)
LStrip(s) ==
    IF s # <<>> /\ IsSpace(Head(s)) THEN LStrip(Tail(s)) ELSE s

RECURSIVE RStrip(_)
RStrip(s) ==
    IF s # <<>> /\ IsSpace(s[Len(s)]) THEN RStrip(SubSeq(s, 1, Len(s) - 1)) ELSE s

\* str.strip()
Strip(s) == RStrip(LStrip(s))

Digits == <<"0", "1", "2", "3", "4", "5", "6", "7", "8", "9">>

\* str(n) of a non-negative int, as the f-string formats it.
RECURSIVE IntStr(_)
IntStr(n) ==
    IF n < 10 THEN <<Digits[n + 1]>>
    ELSE IntStr(n \div 10) \o <<Digits[(n % 10) + 1]>>

\* str(b) of a bool.
BoolStr(b) == IF b THEN <<"T", "r", "u", "e">> ELSE <<"F", "a", "l", "s", "e">>

Basic == <<"b", "a", "s", "i", "c">>
Advanced == <<"a", "d", "v", "a", "n", "c", "e", "d">>

(***************************************************************************)
(* SearchCache.                                                            *)
(* _store is a dict: a sequence of entries in insertion order, one per     *)
(* key.  An entry is [key, ts, data].                                      *)
(***************************************************************************)
None == [isNone |-> TRUE]
Some(x) == [isNone |-> FALSE, val |-> x]

\* A key that trims and lowercases the depth as well as the query.
MakeKey_NormDepth(query, depth, max_results, include_raw) ==
    Lower(Strip(query)) \o <<"|">> \o Lower(Strip(depth)) \o <<"|">>
        \o IntStr(max_results) \o <<"|">> \o BoolStr(include_raw)

\* The string that is hashed; sha256 is taken to be collision-free, so the
\* digest is identified with its preimage.
MakeKey(query, depth, max_results, include_raw) ==
    Lower(Strip(query)) \o <<"|">> \o depth \o <<"|">> \o IntStr(max_results)
        \o <<"|">> \o BoolStr(include_raw)

\* Position of key in the dict, 0 when absent.
IndexOf(st, key) ==
    IF \E i \in 1..Len(st) : st[i].key = key
    THEN CHOOSE i \in 1..Len(st) : st[i].key = key
    ELSE 0

\* del d[k] for the entry at position i.
RemoveAt(st, i) == SubSeq(st, 1, i - 1) \o SubSeq(st, i + 1, Len(st))

\* A cache that evicts the entry written last.
OldestIdx_Newest(st) ==
    CHOOSE i \in 1..Len(st) : \A j \in 1..Len(st) : st[i].ts >= st[j].ts

\* min(self._store, key=lambda k: self._store[k][0]): the first key, in
\* iteration order, among those of least timestamp.
OldestIdx(st) ==
    CHOOSE i \in 1..Len(st) :
        /\ \A j \in 1..Len(st) : st[i].ts <= st[j].ts
        /\ \A j \in 1..(i - 1) : st[j].ts > st[i].ts

\* A store that keeps the value a key already has (setdefault).
DictSet_KeepOld(st, key, ts, data) ==
    IF \E i \in 1..Len(st) : st[i].key = key THEN st
    ELSE Append(st, [key |-> key, ts |-> ts, data |-> data])

\* d[k] = v: in place for a key that is present, appended otherwise.
DictSet(st, key, ts, data) ==
    LET i == IndexOf(st, key)
        e == [key |-> key, ts |-> ts, data |-> data]
    IN  IF i = 0 THEN Append(st, e) ELSE [st EXCEPT ![i] = e]

\* A get that expires an entry already at age ttl.
Get_ExpireAtTtl(st, t, ttl, query, depth, max_results, include_raw) ==
    LET key == Lower(Strip(query)) \o <<"|">> \o depth \o <<"|">>
                   \o IntStr(max_results) \o <<"|">> \o BoolStr(include_raw)
        hit == \E i \in 1..Len(st) : st[i].key = key
        i == CHOOSE i \in 1..Len(st) : st[i].key = key
    IN  IF ~hit THEN [store |-> st, ret |-> None]
        ELSE IF t - st[i].ts >= ttl
             THEN [store |-> SubSeq(st, 1, i - 1) \o SubSeq(st, i + 1, Len(st)),
                   ret |-> None]
             ELSE [store |-> st, ret |-> Some(st[i].data)]

\* SearchCache.get: the store it leaves and the value it returns.
Get(st, t, ttl, query, depth, max_results, include_raw) ==
    LET key == MakeKey(query, depth, max_results, include_raw)
        i == IndexOf(st, key)
    IN  IF i = 0 THEN [store |-> st, ret |-> None]
        ELSE IF t - st[i].ts > ttl
             THEN [store |-> RemoveAt(st, i), ret |-> None]
             ELSE [store |-> st, ret |-> Some(st[i].data)]

\* A put that evicts only once the store is over capacity.
Put_EvictLate(st, t, max_size, query, depth, max_results, include_raw, data) ==
    LET st1 == IF Len(st) > max_size THEN RemoveAt(st, OldestIdx(st)) ELSE st
        key == MakeKey(query, depth, max_results, include_raw)
    IN  DictSet(st1, key, t, data)

\* A put that evicts only to make room for a key that is not stored yet.
Put_KeepOnOverwrite(st, t, max_size, query, depth, max_results, include_raw, data) ==
    LET key == Lower(Strip(query)) \o <<"|">> \o depth \o <<"|">>
                   \o IntStr(max_results) \o <<"|">> \o BoolStr(include_raw)
        present == \E i \in 1..Len(st) : st[i].key = key
        st1 == IF Len(st) >= max_size /\ ~present
               THEN RemoveAt(st, OldestIdx(st)) ELSE st
    IN  DictSet(st1, key, t, data)

\* put raises when it is to evict from an empty store: min() of an empty
\* dict is a ValueError (search_router.py 119-120).
PutRaises(st, max_size) == Len(st) >= max_size /\ st = <<>>

\* SearchCache.put: the store it leaves.
Put(st, t, max_size, query, depth, max_results, include_raw, data) ==
    LET st1 == IF Len(st) >= max_size THEN RemoveAt(st, OldestIdx(st)) ELSE st
        key == MakeKey(query, depth, max_results, include_raw)
    IN  DictSet(st1, key, t, data)

\* SearchCache.clear
Clear(st) == <<>>

(***************************************************************************)
(* SearchPlan (search_router.py) and settings (config/settings.py).        *)
(***************************************************************************)
MaxSearchResults == 5
MaxImagesPerResponse == 6
\* Fallbacks of WebSearchAgent.search when no plan is given.
LegacyMaxResults == 5
LegacyContextBudget == 6000

LOW_QUALITY_DOMAINS ==
    <<"pinterest.com", "quora.com", "tiktok.com", "facebook.com",
      "instagram.com", "twitter.com">>

SearchPlan(complexity, search_depth, max_results, num_queries, include_raw_content, include_images, include_answer, include_domains, exclude_domains, topic, context_budget_chars) ==
    [complexity |-> complexity, search_depth |-> search_depth,
     max_results |-> max_results, num_queries |-> num_queries,
     include_raw_content |-> include_raw_content,
     include_images |-> include_images, include_answer |-> include_answer,
     include_domains |-> include_domains, exclude_domains |-> exclude_domains,
     topic |-> topic, context_budget_chars |-> context_budget_chars]

\* The three presets of SearchRouter.plan.
Preset(complexity, needs_images) ==
    CASE complexity = "simple" ->
           SearchPlan(complexity, Basic, 3, 1, FALSE, needs_images, TRUE,
                      <<>>, LOW_QUALITY_DOMAINS, "general", 4000)
      [] complexity = "moderate" ->
           SearchPlan(complexity, Basic, 5, 2, FALSE, needs_images, TRUE,
                      <<>>, LOW_QUALITY_DOMAINS, "general", 6000)
      [] OTHER ->
           SearchPlan(complexity, Advanced, 7, 3, TRUE, needs_images, TRUE,
                      <<>>, LOW_QUALITY_DOMAINS, "general", 12000)

\* The plan of the orchestrator's dedicated image search.
ImgPlan ==
    SearchPlan("simple", Basic, 3, 1, FALSE, TRUE, FALSE, <<>>, <<>>,
               "general", 2000)

(***************************************************************************)
(* SearchResult values and provider responses.                             *)
(***************************************************************************)
\* A text is a prefix of a named document: text doc, first len characters.
Text(doc, len) == [doc |-> doc, len |-> len]
NoText == Text("", 0)

Min(a, b) == IF a < b THEN a ELSE b

\* text[:n]
Prefix(text, n) == Text(text.doc, Min(text.len, n))

\* A SearchResult object; oid is the identity of the object, which the cache
\* and the lists that hold the object share.
MkResult(title, url, content, score, images, oid) ==
    [title |-> title, url |-> url, content |-> content, score |-> score,
     images |-> images, oid |-> oid]

\* A JSON null where a response should hold a string.
Null == <<"null">>

\* dict.get(key, default)
DictGet(d, key, default) == IF key \in DOMAIN d THEN d[key] ELSE default

\* s[:n] of a list
Take(s, n) == SubSeq(s, 1, Min(Len(s), n))

\* The parse of a response raises when SearchResult's validation rejects a
\* field: a null where title or url must be a str.
ParseRaises(response) ==
    \E i \in 1..Len(DictGet(response, "results", <<>>)) :
        LET item == DictGet(response, "results", <<>>)[i]
        IN  \/ DictGet(item, "title", <<>>) = Null
            \/ DictGet(item, "url", <<>>) = Null

\* One item of the response as a SearchResult (search_agent.py 95-110).
ParseItem(item, raw_content, context_budget, oid) ==
    LET content == DictGet(item, "content", NoText)
        raw == DictGet(item, "raw_content", NoText)
    IN  MkResult(DictGet(item, "title", <<>>), DictGet(item, "url", <<>>),
                 IF raw_content /\ raw.len > 0 /\ raw.len > content.len
                 THEN Prefix(raw, context_budget) ELSE content,
                 DictGet(item, "score", 5), <<>>, oid)

\* A parse that gives the images of the provider to every result.
ParseResponse_AllImages(response, raw_content, images, context_budget, call) ==
    LET items == DictGet(response, "results", <<>>)
        tavily_images == DictGet(response, "images", <<>>)
    IN  [i \in 1..Len(items) |->
            [ParseItem(items[i], raw_content, context_budget, <<call, i>>)
                EXCEPT !.images = IF images
                                  THEN Take(tavily_images, MaxImagesPerResponse)
                                  ELSE <<>>]]

\* The results list WebSearchAgent.search builds from a response; call is
\* the number of the provider call, and names the objects it creates.
ParseResponse(response, raw_content, images, context_budget, call) ==
    LET items == DictGet(response, "results", <<>>)
        results == [i \in 1..Len(items) |->
                       ParseItem(items[i], raw_content, context_budget,
                                 <<call, i>>)]
        tavily_images == DictGet(response, "images", <<>>)
    IN  IF images /\ tavily_images # <<>> /\ results # <<>>
        THEN [results EXCEPT
                 ![1].images = Take(tavily_images, MaxImagesPerResponse)]
        ELSE results

(***************************************************************************)
(* WebSearchAgent: resolution of the parameters, merge of the results.     *)
(***************************************************************************)
HasPlan(plan) == plan # None

\* search_agent.py 50-58: every parameter from the plan, else the legacy
\* keyword arguments and defaults.
Resolve(plan, search_depth, include_images) ==
    IF HasPlan(plan)
    THEN [depth |-> plan.search_depth, max_results |-> plan.max_results,
          raw_content |-> plan.include_raw_content,
          images |-> plan.include_images, answer |-> plan.include_answer,
          include_domains |-> plan.include_domains,
          exclude_domains |-> plan.exclude_domains, topic |-> plan.topic,
          context_budget |-> plan.context_budget_chars]
    ELSE [depth |-> search_depth,
          max_results |-> Min(MaxSearchResults, LegacyMaxResults),
          raw_content |-> FALSE, images |-> include_images, answer |-> TRUE,
          include_domains |-> <<>>, exclude_domains |-> <<>>,
          topic |-> "general", context_budget |-> LegacyContextBudget]

\* The keyword arguments of self.client.search (search_agent.py 74-86).
Kwargs(query, rp) ==
    LET base == [query |-> query, search_depth |-> rp.depth,
                 max_results |-> rp.max_results, include_images |-> rp.images,
                 include_answer |-> rp.answer,
                 include_raw_content |-> rp.raw_content, topic |-> rp.topic]
        inc == IF rp.include_domains # <<>>
               THEN base @@ [include_domains |-> rp.include_domains] ELSE base
    IN  IF rp.exclude_domains # <<>>
        THEN inc @@ [exclude_domains |-> rp.exclude_domains] ELSE inc

\* s.split(sep)[0]: the text before the first sep.
RECURSIVE SplitFirst(_, _)
SplitFirst(s, sep) ==
    IF s = <<>> \/ Head(s) = sep THEN <<>>
    ELSE <<Head(s)>> \o SplitFirst(Tail(s), sep)

\* img_url.lower().split("?")[0]
NormImg(u) == SplitFirst(Lower(u), "?")

\* queries no plan can cut short.
Effective_All(queries, plan) == queries

\* queries[:max_queries] (search_agent.py 145-146)
Effective(queries, plan) ==
    Take(queries, IF HasPlan(plan) THEN plan.num_queries ELSE Len(queries))

EmptyAcc ==
    [all_results |-> <<>>, seen_urls |-> {}, all_image_urls |-> <<>>,
     seen_image_urls |-> {}]

\* The loop over result.images (search_agent.py 157-161).
RECURSIVE CollectImages(_, _)
CollectImages(acc, imgs) ==
    IF imgs = <<>> THEN acc
    ELSE LET norm == NormImg(Head(imgs))
         IN  CollectImages(
                 IF norm \notin acc.seen_image_urls
                 THEN [acc EXCEPT
                          !.all_image_urls = Append(@, Head(imgs)),
                          !.seen_image_urls = @ \cup {norm}]
                 ELSE acc,
                 Tail(imgs))

\* A merge that keeps every result, whatever its url.
RECURSIVE Merge_NoDedup(_, _)
Merge_NoDedup(acc, results) ==
    IF results = <<>> THEN acc
    ELSE LET result == Head(results)
             a1 == CollectImages(acc, result.images)
         IN  Merge_NoDedup(
                 [a1 EXCEPT !.all_results = Append(@, result),
                            !.seen_urls = @ \cup {result.url}],
                 Tail(results))

\* A merge that pools the images of the results it keeps only.
RECURSIVE Merge_ImagesOfKept(_, _)
Merge_ImagesOfKept(acc, results) ==
    IF results = <<>> THEN acc
    ELSE LET result == Head(results)
             a2 == IF result.url \notin acc.seen_urls
                   THEN [CollectImages(acc, result.images) EXCEPT
                            !.all_results = Append(@, result),
                            !.seen_urls = @ \cup {result.url}]
                   ELSE acc
         IN  Merge_ImagesOfKept(a2, Tail(results))

\* The loop over the results of one search (search_agent.py 155-165).
RECURSIVE Merge(_, _)
Merge(acc, results) ==
    IF results = <<>> THEN acc
    ELSE LET result == Head(results)
             a1 == CollectImages(acc, result.images)
             a2 == IF result.url \notin a1.seen_urls
                   THEN [a1 EXCEPT !.all_results = Append(@, result),
                                   !.seen_urls = @ \cup {result.url}]
                   ELSE a1
         IN  Merge(a2, Tail(results))

\* Insertion of x into a list sorted by descending score, after the
\* elements of equal score.
RECURSIVE InsertDesc(_, _)
InsertDesc(s, x) ==
    IF s = <<>> THEN <<x>>
    ELSE IF Head(s).score >= x.score THEN <<Head(s)>> \o InsertDesc(Tail(s), x)
    ELSE <<x>> \o s

RECURSIVE SortFrom(_, _)
SortFrom(sorted, rest) ==
    IF rest = <<>> THEN sorted
    ELSE SortFrom(InsertDesc(sorted, Head(rest)), Tail(rest))

\* A sort that leaves the list as it is.
SortDesc_None(s) == s

\* list.sort(key=lambda x: x.score, reverse=True): stable, descending.
SortDesc(s) == SortFrom(<<>>, s)

\* search_agent.py 171
Cap(plan) == IF HasPlan(plan) THEN plan.max_results ELSE MaxSearchResults

\* search_agent.py 168-172
TopResults(acc, plan) == Take(SortDesc(acc.all_results), Cap(plan))

\* An append of every pooled image, present already or not.
MergeImages_NoSkip(images, existing, pool) == images \o pool

\* The images of the first result after the pooled images were appended
\* (search_agent.py 176-180).
RECURSIVE MergeImages(_, _, _)
MergeImages(images, existing, pool) ==
    IF pool = <<>> THEN images
    ELSE IF NormImg(Head(pool)) \notin existing
         THEN MergeImages(Append(images, Head(pool)),
                          existing \cup {NormImg(Head(pool))}, Tail(pool))
         ELSE MergeImages(images, existing, Tail(pool))

FirstImages(acc, top) ==
    IF acc.all_image_urls # <<>> /\ top # <<>>
    THEN MergeImages(top[1].images, {NormImg(u) : u \in Range(top[1].images)},
                     acc.all_image_urls)
    ELSE IF top # <<>> THEN top[1].images ELSE <<>>

\* The object with identity oid gets a new image list, in every list of
\* results that holds it.
SetImages(results, oid, images) ==
    [i \in 1..Len(results) |->
        IF results[i].oid = oid THEN [results[i] EXCEPT !.images = images]
        ELSE results[i]]

\* A record that counts every search as a basic one.
Record_AlwaysBasic(u, search_depth) == [u EXCEPT !.basic_queries = @ + 1]

\* tools/cost_tracking.py: record_tavily_search(search_depth, 1)
Record(u, search_depth) ==
    IF search_depth = Advanced THEN [u EXCEPT !.advanced_queries = @ + 1]
    ELSE [u EXCEPT !.basic_queries = @ + 1]

NoUsage == [basic_queries |-> 0, advanced_queries |-> 0]

(***************************************************************************)
(* SearchRouter: classification, plan and queries (search_router.py).      *)
(* An intent is None or an IntentAnalysis record; its confidence is in     *)
(* hundredths (0.75 is 75).                                                *)
(***************************************************************************)
\* Length of the first word of t, which starts with no whitespace.
WordLen(t) ==
    CHOOSE n \in 0..Len(t) :
        /\ \A j \in 1..n : ~IsSpace(t[j])
        /\ n = Len(t) \/ IsSpace(t[n + 1])

\* str.split(): the words of s, separated by runs of whitespace.
RECURSIVE Split(_)
Split(s) ==
    LET t == LStrip(s)
    IN  IF t = <<>> THEN <<>>
        ELSE <<SubSeq(t, 1, WordLen(t))>>
                 \o Split(SubSeq(t, WordLen(t) + 1, Len(t)))

\* ' '.join(words)
RECURSIVE Join(_)
Join(words) ==
    IF words = <<>> THEN <<>>
    ELSE IF Len(words) = 1 THEN words[1]
    ELSE words[1] \o <<" ">> \o Join(Tail(words))

\* A classification that calls a query of exactly 40 words long.
ClassifyComplexity_LongAt40(intent, query) ==
    IF intent = None THEN "moderate"
    ELSE IF /\ intent.confidence >= 75
            /\ intent.difficulty_level = "beginner"
            /\ intent.question_type \in {"conceptual", "practical"}
            /\ Len(intent.key_concepts) <= 2
            /\ Len(Split(query)) <= 15
         THEN "simple"
    ELSE IF \/ intent.difficulty_level = "advanced"
            \/ intent.question_type = "mathematical"
            \/ (intent.requires_math /\ intent.requires_code)
            \/ Len(intent.key_concepts) >= 5
            \/ Len(Split(query)) >= 40
         THEN "complex"
    ELSE "moderate"

\* The SIMPLE condition of _classify_complexity (lines 160-166).
IsSimple(intent, query) ==
    /\ intent.confidence >= 75
    /\ intent.difficulty_level = "beginner"
    /\ intent.question_type \in {"conceptual", "practical"}
    /\ Len(intent.key_concepts) <= 2
    /\ Len(Split(query)) <= 15

\* The COMPLEX condition of _classify_complexity (lines 171-177).
IsComplex(intent, query) ==
    \/ intent.difficulty_level = "advanced"
    \/ intent.question_type = "mathematical"
    \/ (intent.requires_math /\ intent.requires_code)
    \/ Len(intent.key_concepts) >= 5
    \/ Len(Split(query)) > 40

\* A classification that tests the COMPLEX condition first.
ClassifyComplexity_ComplexFirst(intent, query) ==
    IF intent = None THEN "moderate"
    ELSE IF IsComplex(intent, query) THEN "complex"
    ELSE IF IsSimple(intent, query) THEN "simple"
    ELSE "moderate"

\* SearchRouter._classify_complexity
ClassifyComplexity(intent, query) ==
    IF intent = None THEN "moderate"
    ELSE IF IsSimple(intent, query) THEN "simple"
    ELSE IF IsComplex(intent, query) THEN "complex"
    ELSE "moderate"

\* SearchRouter._select_domains: <<include, exclude>>
SelectDomains(intent) ==
    LET exclude == LOW_QUALITY_DOMAINS
    IN  IF intent # None /\ intent.requires_code THEN <<<<>>, exclude>>
        ELSE IF intent # None /\ intent.question_type = "mathematical"
             THEN <<<<>>, exclude>>
        ELSE <<<<>>, exclude>>

\* A plan that asks for images only when the caller forces them.
RouterPlan_ForcedOnly(query, intent, force_images) ==
    [Preset(ClassifyComplexity(intent, query), force_images) EXCEPT
        !.include_domains = SelectDomains(intent)[1],
        !.exclude_domains = SelectDomains(intent)[2]]

\* SearchRouter.plan
RouterPlan(query, intent, force_images) ==
    LET complexity == ClassifyComplexity(intent, query)
        domains == SelectDomains(intent)
        needs_images ==
            force_images
                \/ (IF intent # None THEN intent.requires_visuals ELSE TRUE)
    IN  [Preset(complexity, needs_images) EXCEPT
            !.include_domains = domains[1], !.exclude_domains = domains[2]]

\* " explained with examples" (search_router.py 303)
SufExplained ==
    <<" ", "e", "x", "p", "l", "a", "i", "n", "e", "d", " ", "w", "i", "t",
      "h", " ", "e", "x", "a", "m", "p", "l", "e", "s">>

\* " tutorial explanation" (search_router.py 305)
SufTutorial ==
    <<" ", "t", "u", "t", "o", "r", "i", "a", "l", " ", "e", "x", "p", "l",
      "a", "n", "a", "t", "i", "o", "n">>

\* " in-depth explanation" (search_router.py 311)
SufInDepth ==
    <<" ", "i", "n", "-", "d", "e", "p", "t", "h", " ", "e", "x", "p", "l",
      "a", "n", "a", "t", "i", "o", "n">>

\* " detailed explanation" (search_router.py 313)
SufDetailed ==
    <<" ", "d", "e", "t", "a", "i", "l", "e", "d", " ", "e", "x", "p", "l",
      "a", "n", "a", "t", "i", "o", "n">>

\* " formula derivation proof" (search_router.py 317)
SufMath ==
    <<" ", "f", "o", "r", "m", "u", "l", "a", " ", "d", "e", "r", "i", "v",
      "a", "t", "i", "o", "n", " ", "p", "r", "o", "o", "f">>

\* " code implementation example" (search_router.py 319)
SufCode ==
    <<" ", "c", "o", "d", "e", " ", "i", "m", "p", "l", "e", "m", "e", "n",
      "t", "a", "t", "i", "o", "n", " ", "e", "x", "a", "m", "p", "l", "e">>

\* " diagram visual illustration" (search_router.py 321)
SufVisual ==
    <<" ", "d", "i", "a", "g", "r", "a", "m", " ", "v", "i", "s", "u", "a",
      "l", " ", "i", "l", "l", "u", "s", "t", "r", "a", "t", "i", "o", "n">>

\* " examples applications" (search_router.py 323)
SufExamples ==
    <<" ", "e", "x", "a", "m", "p", "l", "e", "s", " ", "a", "p", "p", "l",
      "i", "c", "a", "t", "i", "o", "n", "s">>

\* A choice of the specialised query that puts code before math.
Specialised_CodeFirst(original_question, intent) ==
    IF intent # None /\ intent.requires_code THEN original_question \o SufCode
    ELSE IF intent # None /\ intent.requires_math
         THEN original_question \o SufMath
    ELSE IF intent # None /\ intent.requires_visuals
         THEN original_question \o SufVisual
    ELSE original_question \o SufExamples

\* The specialised query (search_router.py 316-323).
Specialised(original_question, intent) ==
    IF intent # None /\ intent.requires_math THEN original_question \o SufMath
    ELSE IF intent # None /\ intent.requires_code
         THEN original_question \o SufCode
    ELSE IF intent # None /\ intent.requires_visuals
         THEN original_question \o SufVisual
    ELSE original_question \o SufExamples

\* A list of queries that starts with the concept query.
Built_ConceptFirst(original_question, intent, plan) ==
    LET concepts == IF intent # None THEN intent.key_concepts ELSE <<>>
    IN  IF plan.num_queries = 1 THEN <<original_question>>
        ELSE <<IF concepts # <<>>
               THEN Join(Take(concepts, 3)) \o SufExplained
               ELSE original_question \o SufTutorial,
               original_question>>

\* The queries before de-duplication (search_router.py 293-323).
Built(original_question, intent, plan) ==
    LET concepts == IF intent # None THEN intent.key_concepts ELSE <<>>
    IN  IF plan.num_queries = 1 THEN <<original_question>>
        ELSE IF plan.num_queries = 2
             THEN <<original_question,
                    IF concepts # <<>>
                    THEN Join(Take(concepts, 3)) \o SufExplained
                    ELSE original_question \o SufTutorial>>
        ELSE <<original_question,
               IF concepts # <<>>
               THEN Join(Take(concepts, 2)) \o SufInDepth
               ELSE original_question \o SufDetailed,
               Specialised(original_question, intent)>>

RECURSIVE UniqueFrom(_, _, _)
UniqueFrom(unique, seen, queries) ==
    IF queries = <<>> THEN unique
    ELSE LET q == Head(queries)
             normalised == Lower(Strip(q))
         IN  IF normalised \notin seen
             THEN UniqueFrom(Append(unique, q), seen \cup {normalised},
                             Tail(queries))
             ELSE UniqueFrom(unique, seen, Tail(queries))

\* No de-duplication.
Unique_None(queries) == queries

\* De-duplicate while preserving order (search_router.py 326-332).
Unique(queries) == UniqueFrom(<<>>, {}, queries)

\* SearchRouter.generate_queries
GenerateQueries(original_question, intent, plan) ==
    Take(Unique(Built(original_question, intent, plan)), plan.num_queries)

(***************************************************************************)
(* ResearchOrchestrator: the workflow graph (graph/orchestrator.py).       *)
(* Of the graph state the model keeps retries, quality_score and the       *)
(* teaching response in the metadata; the quality score is in tenths.      *)
(***************************************************************************)
\* settings.max_retries
MaxRetries == 3

\* The nodes, in the order they are added.
Stages ==
    <<"classify_intent", "plan_search", "generate_queries", "search_web",
      "extract_content", "select_images", "synthesize_teaching",
      "assess_quality">>

END == "END"

\* workflow.set_entry_point
EntryPoint == "classify_intent"

\* workflow.add_edge: the sequential pipeline.
Edge(node) ==
    CASE node = "classify_intent" -> "plan_search"
      [] node = "plan_search" -> "generate_queries"
      [] node = "generate_queries" -> "search_web"
      [] node = "search_web" -> "extract_content"
      [] node = "extract_content" -> "select_images"
      [] node = "select_images" -> "synthesize_teaching"
      [] node = "synthesize_teaching" -> "assess_quality"

\* A retry edge that goes back to the planning of the search.
RetryRoute_Replan(route) == IF route = "retry" THEN "plan_search" ELSE END

\* workflow.add_conditional_edges: where the answer of should_retry leads.
RetryRoute(route) == IF route = "retry" THEN "generate_queries" ELSE END

\* The state process_question starts the graph with.
InitialState == [retries |-> 0, quality_score |-> 0, teaching_response |-> None]

\* A TeachingResponse, by which of the fields the assessment reads are
\* non-empty.
TeachingResponses ==
    [tldr : BOOLEAN, explanation : BOOLEAN, analogy : BOOLEAN,
     sources : BOOLEAN, practice_questions : BOOLEAN]

\* The score assess_quality_node computes.
AssessQuality(teaching_response) ==
    IF teaching_response.isNone THEN 0
    ELSE LET r == teaching_response.val
         IN  (IF r.tldr THEN 2 ELSE 0) + (IF r.explanation THEN 3 ELSE 0)
                 + (IF r.analogy THEN 2 ELSE 0) + (IF r.sources THEN 2 ELSE 0)
                 + (IF r.practice_questions THEN 1 ELSE 0)

\* should_retry(state): the increment of retries is made on a local
\* variable, so the answer is all the function gives back.
ShouldRetry(state) ==
    IF state.quality_score < 2 /\ state.retries < MaxRetries THEN "retry"
    ELSE "complete"

(***************************************************************************)
(* State.                                                                  *)
(***************************************************************************)
\* The requests that share the singleton cache.
Procs == {1, 2}

VARIABLES
    now,      \* time.time()
    store,    \* _search_cache._store
    last,     \* the latest direct call of the cache and what it returned
    pc,       \* where each request stands in search / multi_query_search
    args,     \* the call each request made: kind, queries, plan
    idx,      \* position of the for loop in effective_queries
    acc,      \* all_results, seen_urls, all_image_urls, seen_image_urls
    srch,     \* the latest self.search call of each request
    searched, \* the queries each request has called self.search for
    fetched,  \* the results those searches returned, in the order met
    ret,      \* what the call of each request returned
    usage,    \* the TavilyUsage of each request's context
    ncalls,   \* the number of calls the provider has received
    conf,     \* SearchCache(ttl, max_size): _ttl and _max_size
    rcall,    \* the latest call of a SearchRouter method and its result
    orch,     \* the graph state of the orchestrated request and its path
    thr       \* where each thread stands inside SearchCache.put

cacheVars == <<now, store, last>>
agentVars == <<pc, args, idx, acc, srch, searched, fetched, ret, usage, ncalls>>
vars ==
    <<now, store, last, pc, args, idx, acc, srch, searched, fetched, ret, usage,
      ncalls, conf, rcall, orch, thr>>

\* Inputs of the direct cache calls.
CacheQueries == {<<"a">>, <<" ", "A">>, <<"b">>}
CacheParams == {<<Basic, 3, FALSE>>, <<Advanced, 7, TRUE>>}
CacheData ==
    {<<>>, <<MkResult(<<"t">>, <<"u">>, Text("d", 10), 5, <<>>, <<0, 1>>)>>}

\* Inputs of the agent: queries, plans, provider responses.
QA == <<"a">>
QAv == <<"A", " ">>
QB == <<"b">>
QC == <<"c">>

\* A plan with the key fields of the complex preset and other values in
\* the fields the key leaves out.
NewsPlan ==
    SearchPlan("complex", Advanced, 7, 3, TRUE, FALSE, FALSE,
               <<"arxiv.org">>, <<>>, "news", 4000)

\* multi_query_search is called with the plan of the router, or with none;
\* search is called with the plan of the dedicated image search.
MultiPlans ==
    {None, Preset("simple", FALSE), Preset("moderate", TRUE),
     Preset("complex", TRUE), NewsPlan}
SearchPlans == {ImgPlan}
Plans == MultiPlans \cup SearchPlans

QueryLists == {<<QA, QB>>, <<QAv, QB, QA>>}

RespA ==
    [results |->
        <<[title |-> <<"t">>, url |-> <<"u", "1">>, content |-> Text("c1", 100),
           score |-> 9],
          [title |-> <<"t">>, url |-> <<"u", "2">>, content |-> Text("c2", 100),
           score |-> 5],
          [title |-> <<"t">>, url |-> <<"u", "3">>, content |-> Text("c3", 100),
           score |-> 5],
          [title |-> <<"t">>, url |-> <<"u", "4">>, content |-> Text("c4", 100),
           score |-> 7]>>,
     images |-> <<<<"i", "?", "x">>, <<"j">>>>]

RespB ==
    [results |->
        <<[title |-> <<"t">>, url |-> <<"u", "2">>, content |-> Text("c2", 100),
           raw_content |-> Text("r2", 13000), score |-> 8],
          [url |-> <<"U", "1">>, content |-> Text("c5", 100)],
          [title |-> <<"t">>, url |-> <<"u", "5">>, content |-> Text("c6", 100),
           raw_content |-> Text("r6", 50), score |-> 5]>>,
     images |-> <<<<"I", "?", "y">>, <<"k">>>>]

RespEmpty == [results |-> <<>>, images |-> <<<<"j">>>>]

\* A response with more images than settings.max_images_per_response.
RespMany ==
    [results |->
        <<[title |-> <<"t">>, url |-> <<"u", "1">>, content |-> Text("c1", 100),
           score |-> 9],
          [title |-> <<"t">>, url |-> <<"u", "2">>, content |-> Text("c2", 100),
           score |-> 5]>>,
     images |-> <<<<"m", "1">>, <<"m", "2">>, <<"m", "3">>, <<"m", "4">>,
                  <<"m", "5">>, <<"m", "6">>, <<"m", "7">>>>]

RespBad ==
    [results |-> <<[title |-> <<"t">>, url |-> Null, content |-> Text("c1", 100)]>>]

Responses == {RespA, RespB, RespEmpty, RespBad}

NoCall ==
    [op |-> "none", query |-> <<>>, depth |-> <<>>, max_results |-> 0,
     include_raw |-> FALSE, data |-> <<>>, ret |-> None, before |-> <<>>,
     at |-> 0, afterPut |-> FALSE, raised |-> FALSE]

NoArgs == [kind |-> "none", queries |-> <<>>, plan |-> None]

\* No method of the router has been called.
NoRouterCall == [op |-> "none"]

NoSearch ==
    [state |-> "none", query |-> <<>>, call |-> 0, kwargs |-> None, resp |-> None,
     ret |-> <<>>, before |-> <<>>, at |-> 0]

\* No request has reached the orchestrator.
NoRequest ==
    [node |-> "none", state |-> InitialState, trace |-> <<>>, passes |-> 0]

\* The thread is not inside put.
NoPut ==
    [pc |-> "idle", query |-> <<>>, oldest_key |-> <<>>, raised |-> FALSE,
     not_oldest |-> FALSE]

\* An empty cache and no request in progress.
Idle ==
    /\ now = 0
    /\ store = <<>>
    /\ last = NoCall
    /\ pc = [p \in Procs |-> "idle"]
    /\ args = [p \in Procs |-> NoArgs]
    /\ idx = [p \in Procs |-> 1]
    /\ acc = [p \in Procs |-> EmptyAcc]
    /\ srch = [p \in Procs |-> NoSearch]
    /\ searched = [p \in Procs |-> <<>>]
    /\ fetched = [p \in Procs |-> <<>>]
    /\ ret = [p \in Procs |-> <<>>]
    /\ usage = [p \in Procs |-> NoUsage]
    /\ ncalls = 0
    /\ orch = NoRequest
    /\ thr = [p \in Procs |-> NoPut]

Init ==
    /\ Idle
    /\ conf = [ttl |-> Ttl, max_size |-> MaxSize]
    /\ rcall = NoRouterCall

\* Time passes.
Tick ==
    /\ now < MaxTime
    /\ now' = now + 1
    /\ UNCHANGED <<store, last>>
    /\ UNCHANGED agentVars
    /\ UNCHANGED <<conf, rcall, orch, thr>>

\* A caller invokes cache.get(query, depth, max_results, include_raw).
CacheGet(q, d, m, r) ==
    LET g == Get(store, now, conf.ttl, q, d, m, r)
    IN  /\ store' = g.store
        /\ last' = [op |-> "get", query |-> q, depth |-> d, max_results |-> m,
                    include_raw |-> r, data |-> <<>>, ret |-> g.ret,
                    before |-> store, at |-> now,
                    afterPut |-> /\ last.op = "put"
                                 /\ ~last.raised
                                 /\ <<last.query, last.depth, last.max_results,
                                      last.include_raw>> = <<q, d, m, r>>,
                    raised |-> FALSE]
        /\ UNCHANGED now
        /\ UNCHANGED agentVars
        /\ UNCHANGED <<conf, rcall, orch, thr>>

\* A caller invokes cache.put(query, depth, max_results, include_raw, data).
CachePut(q, d, m, r, data) ==
    /\ store' = IF PutRaises(store, conf.max_size) THEN store
                ELSE Put(store, now, conf.max_size, q, d, m, r, data)
    /\ last' = [op |-> "put", query |-> q, depth |-> d, max_results |-> m,
                include_raw |-> r, data |-> data, ret |-> None,
                before |-> store, at |-> now, afterPut |-> FALSE,
                raised |-> PutRaises(store, conf.max_size)]
    /\ UNCHANGED now
    /\ UNCHANGED agentVars
    /\ UNCHANGED <<conf, rcall, orch, thr>>

\* A caller invokes cache.clear().
CacheClear ==
    /\ store' = Clear(store)
    /\ last' = [NoCall EXCEPT !.op = "clear", !.before = store, !.at = now]
    /\ UNCHANGED now
    /\ UNCHANGED agentVars
    /\ UNCHANGED <<conf, rcall, orch, thr>>

CacheNext ==
    \/ Tick
    \/ \E q \in CacheQueries, p \in CacheParams : CacheGet(q, p[1], p[2], p[3])
    \/ \E q \in CacheQueries, p \in CacheParams, data \in CacheData :
           CachePut(q, p[1], p[2], p[3], data)
    \/ CacheClear

\* Any sequence of direct get, put and clear calls as time passes.
CacheSpec == Init /\ [][CacheNext]_vars

\* A depth that differs from "basic" in letter case and trailing whitespace.
BasicVariant == <<"B", "a", "s", "i", "c", " ">>

\* Inputs of the calls of a cache of any configuration: arguments that
\* differ from the first in the form of the query, in the form of the
\* depth, in the query, in max_results and in include_raw.
ConfInputs ==
    {<<<<"a">>, Basic, 3, FALSE>>, <<<<" ", "A">>, Basic, 3, FALSE>>,
     <<<<"a">>, BasicVariant, 3, FALSE>>, <<<<"b">>, Basic, 3, FALSE>>,
     <<<<"a">>, Basic, 5, FALSE>>, <<<<"a">>, Basic, 3, TRUE>>}

\* SearchCache(ttl, max_size) is constructed with any ttl and max_size.
ConfInit ==
    /\ Idle
    /\ conf \in [ttl : {0, Ttl}, max_size : 0..MaxSize]
    /\ rcall = NoRouterCall

ConfNext ==
    \/ Tick
    \/ \E i \in ConfInputs : CacheGet(i[1], i[2], i[3], i[4])
    \/ \E i \in ConfInputs : CachePut(i[1], i[2], i[3], i[4], <<>>)
    \/ CacheClear

\* Any sequence of get, put and clear calls on a cache of any configuration.
ConfSpec == ConfInit /\ [][ConfNext]_vars

(***************************************************************************)
(* SearchCache.put run by two threads: one step per statement, so that     *)
(* the capacity check and the eviction of one call can interleave with     *)
(* the insert of the other.                                                *)
(***************************************************************************)
PutQueries == {<<"a">>, <<"b">>, <<"c">>, <<"d">>}

\* A put that deletes nothing.
Evict_None(st, key) == st

\* del self._store[oldest_key]
Evict(st, key) == RemoveAt(st, IndexOf(st, key))

\* A thread calls put(query, "basic", 3, False, []).
PutCall(p, query) ==
    /\ thr[p].pc = "idle"
    /\ thr' = [thr EXCEPT ![p] = [NoPut EXCEPT !.pc = "check", !.query = query]]
    /\ UNCHANGED cacheVars
    /\ UNCHANGED agentVars
    /\ UNCHANGED <<conf, rcall, orch>>

\* if len(self._store) >= self._max_size
PutCheck(p) ==
    /\ thr[p].pc = "check"
    /\ thr' = [thr EXCEPT ![p].pc =
                  IF Len(store) >= conf.max_size THEN "min" ELSE "insert"]
    /\ UNCHANGED cacheVars
    /\ UNCHANGED agentVars
    /\ UNCHANGED <<conf, rcall, orch>>

\* oldest_key = min(...): a ValueError when the store is empty.
PutMin(p) ==
    /\ thr[p].pc = "min"
    /\ thr' = [thr EXCEPT ![p] =
                  IF store = <<>>
                  THEN [NoPut EXCEPT !.raised = TRUE]
                  ELSE [@ EXCEPT !.pc = "del",
                                 !.oldest_key = store[OldestIdx(store)].key]]
    /\ UNCHANGED cacheVars
    /\ UNCHANGED agentVars
    /\ UNCHANGED <<conf, rcall, orch>>

\* del self._store[oldest_key]: a KeyError when the key is gone.  The
\* thread notes whether the entry it deleted was the oldest one then.
PutDel(p) ==
    /\ thr[p].pc = "del"
    /\ IF IndexOf(store, thr[p].oldest_key) = 0
       THEN /\ thr' = [thr EXCEPT ![p] = [NoPut EXCEPT !.raised = TRUE]]
            /\ UNCHANGED store
       ELSE /\ store' = Evict(store, thr[p].oldest_key)
            /\ thr' = [thr EXCEPT
                          ![p].pc = "insert",
                          ![p].not_oldest =
                              IndexOf(store, thr[p].oldest_key) # OldestIdx(store)]
    /\ UNCHANGED <<now, last>>
    /\ UNCHANGED agentVars
    /\ UNCHANGED <<conf, rcall, orch>>

\* key = self._make_key(...); self._store[key] = (time.time(), data)
PutInsert(p) ==
    /\ thr[p].pc = "insert"
    /\ store' = DictSet(store, MakeKey(thr[p].query, Basic, 3, FALSE), now, <<>>)
    /\ thr' = [thr EXCEPT ![p] =
                  [NoPut EXCEPT !.not_oldest = thr[p].not_oldest]]
    /\ UNCHANGED <<now, last>>
    /\ UNCHANGED agentVars
    /\ UNCHANGED <<conf, rcall, orch>>

PutNext ==
    \/ Tick
    \/ \E p \in Procs, query \in PutQueries : PutCall(p, query)
    \/ \E p \in Procs : PutCheck(p)
    \/ \E p \in Procs : PutMin(p)
    \/ \E p \in Procs : PutDel(p)
    \/ \E p \in Procs : PutInsert(p)

\* Two threads that call put on the shared cache, in any interleaving.
PutSpec == Init /\ [][PutNext]_vars

(***************************************************************************)
(* WebSearchAgent.search and WebSearchAgent.multi_query_search, one step   *)
(* per stretch of code between two awaits or provider calls.               *)
(***************************************************************************)
\* A search that never looks into the cache.
Lookup_Skip(st, t, query, rp) == [store |-> st, ret |-> None]

\* A cache check keyed on the images flag as well.
Lookup_ImagesInKey(st, t, query, rp) ==
    Get(st, t, Ttl, query \o <<"|">> \o BoolStr(rp.images), rp.depth,
        rp.max_results, rp.raw_content)

\* A cache check that takes an empty cached list for a miss (if cached).
Lookup_Truthy(st, t, query, rp) ==
    LET g == Get(st, t, Ttl, query, rp.depth, rp.max_results, rp.raw_content)
    IN  IF ~g.ret.isNone /\ g.ret.val = <<>> THEN [store |-> g.store, ret |-> None]
        ELSE g

\* The cache check of search (search_agent.py 61).
Lookup(st, t, query, rp) ==
    Get(st, t, Ttl, query, rp.depth, rp.max_results, rp.raw_content)

\* The legacy keyword arguments keep their defaults.
Resolved(p) == Resolve(args[p].plan, Basic, TRUE)

\* The query of the search the request is at.
CurQuery(p) == Effective(args[p].queries, args[p].plan)[idx[p]]

\* No other request is inside a search: self.client.search is a blocking
\* call, so a search runs to its end before another request runs.
Alone(p) == \A o \in Procs \ {p} : pc[o] = "idle"

\* A request enters search(query, plan).
CallSearch(p, query, plan) ==
    /\ pc[p] = "idle"
    /\ pc' = [pc EXCEPT ![p] = "loop"]
    /\ args' = [args EXCEPT ![p] =
                   [kind |-> "search", queries |-> <<query>>, plan |-> plan]]
    /\ UNCHANGED <<idx, acc, srch, searched, fetched, ret, usage, ncalls>>
    /\ UNCHANGED cacheVars
    /\ UNCHANGED <<conf, rcall, orch, thr>>

\* A request calls search(query, plan) while no other request is inside.
StartSearch(p, query, plan) == Alone(p) /\ CallSearch(p, query, plan)

\* A request calls multi_query_search(queries, plan).
StartMulti(p, queries, plan) ==
    /\ pc[p] = "idle"
    /\ Alone(p)
    /\ pc' = [pc EXCEPT ![p] = "loop"]
    /\ args' = [args EXCEPT ![p] =
                   [kind |-> "mqs", queries |-> queries, plan |-> plan]]
    /\ UNCHANGED <<idx, acc, srch, searched, fetched, ret, usage, ncalls>>
    /\ UNCHANGED cacheVars
    /\ UNCHANGED <<conf, rcall, orch, thr>>

\* self.search has returned results: search returns them to its caller,
\* multi_query_search merges them and moves to the next query.
Deliver(p, results) ==
    /\ fetched' = [fetched EXCEPT ![p] = @ \o results]
    /\ IF args[p].kind = "search"
       THEN /\ ret' = [ret EXCEPT ![p] = results]
            /\ pc' = [pc EXCEPT ![p] = "done"]
            /\ UNCHANGED <<acc, idx>>
       ELSE /\ acc' = [acc EXCEPT ![p] = Merge(@, results)]
            /\ idx' = [idx EXCEPT ![p] = @ + 1]
            /\ pc' = [pc EXCEPT ![p] = "loop"]
            /\ UNCHANGED ret

InLoop(p) ==
    /\ pc[p] = "loop"
    /\ idx[p] <= Len(Effective(args[p].queries, args[p].plan))

\* search finds the results in the cache and returns them.
SearchHit(p) ==
    /\ InLoop(p)
    /\ LET rp == Resolved(p)
           g == Lookup(store, now, CurQuery(p), rp)
       IN  /\ ~g.ret.isNone
           /\ store' = g.store
           /\ srch' = [srch EXCEPT ![p] =
                          [state |-> "hit", query |-> CurQuery(p), call |-> 0,
                           kwargs |-> None, resp |-> None, ret |-> g.ret.val,
                           before |-> store, at |-> now]]
           /\ searched' = [searched EXCEPT ![p] = Append(@, CurQuery(p))]
           /\ Deliver(p, g.ret.val)
    /\ UNCHANGED <<now, last, args, usage, ncalls>>
    /\ UNCHANGED <<conf, rcall, orch, thr>>

\* search misses the cache, counts the call and calls the provider.
SearchMiss(p) ==
    /\ InLoop(p)
    /\ LET rp == Resolved(p)
           g == Lookup(store, now, CurQuery(p), rp)
       IN  /\ g.ret.isNone
           /\ store' = g.store
           /\ usage' = [usage EXCEPT ![p] = Record(@, rp.depth)]
           /\ ncalls' = ncalls + 1
           /\ srch' = [srch EXCEPT ![p] =
                          [state |-> "awaiting", query |-> CurQuery(p),
                           call |-> ncalls + 1,
                           kwargs |-> Kwargs(CurQuery(p), rp), resp |-> None,
                           ret |-> <<>>,
                           before |-> store, at |-> now]]
           /\ searched' = [searched EXCEPT ![p] = Append(@, CurQuery(p))]
           /\ pc' = [pc EXCEPT ![p] = "await"]
    /\ UNCHANGED <<now, last, args, idx, acc, fetched, ret>>
    /\ UNCHANGED <<conf, rcall, orch, thr>>

\* What the provider did when the call raised instead of answering.
Exception == [exception |-> TRUE]

\* An error handler that lets the exception out of search.
OnError_Propagate(results) == [raised |-> TRUE, results |-> <<>>]

\* except Exception: log and return [] (search_agent.py 127-129).
OnError(results) == [raised |-> FALSE, results |-> <<>>]

\* The try block ends in the except clause: nothing is stored.
Failed(p, resp) ==
    LET out == OnError(<<>>)
    IN  /\ srch' = [srch EXCEPT ![p] =
                       [@ EXCEPT !.state = IF out.raised THEN "raised" ELSE "error",
                                 !.resp = resp, !.ret = out.results]]
        /\ IF out.raised
           THEN /\ pc' = [pc EXCEPT ![p] = "raised"]
                /\ UNCHANGED <<acc, idx, ret, fetched>>
           ELSE Deliver(p, out.results)
        /\ UNCHANGED store

\* The provider call raises.
ProviderRaise(p) ==
    /\ pc[p] = "await"
    /\ Failed(p, Exception)
    /\ UNCHANGED <<now, last, args, searched, usage, ncalls>>
    /\ UNCHANGED <<conf, rcall, orch, thr>>

\* The provider answers: the response is parsed and the results are stored
\* and returned, unless the parse raises.
ProviderReturn(p, response) ==
    /\ pc[p] = "await"
    /\ LET rp == Resolved(p)
           results == ParseResponse(response, rp.raw_content, rp.images,
                                    rp.context_budget, srch[p].call)
       IN  IF ParseRaises(response)
           THEN Failed(p, Some(response))
           ELSE /\ store' = Put(store, now, MaxSize, srch[p].query, rp.depth,
                                rp.max_results, rp.raw_content, results)
                /\ srch' = [srch EXCEPT ![p] =
                               [@ EXCEPT !.state = "ok", !.resp = Some(response),
                                         !.ret = results]]
                /\ Deliver(p, results)
    /\ UNCHANGED <<now, last, args, searched, usage, ncalls>>
    /\ UNCHANGED <<conf, rcall, orch, thr>>

\* Every list that holds the object oid sees its new images.
Alias(lists, oid, images) ==
    [p \in Procs |-> SetImages(lists[p], oid, images)]

\* The loop of multi_query_search is over: sort, cap, merge the pooled
\* images into the first result, return.
MqsFinish(p) ==
    /\ pc[p] = "loop"
    /\ args[p].kind = "mqs"
    /\ idx[p] > Len(Effective(args[p].queries, args[p].plan))
    /\ LET top == TopResults(acc[p], args[p].plan)
           images == FirstImages(acc[p], top)
       IN  IF top = <<>>
           THEN /\ ret' = [ret EXCEPT ![p] = top]
                /\ UNCHANGED <<store, acc>>
           ELSE /\ ret' = [Alias(ret, top[1].oid, images) EXCEPT
                              ![p] = SetImages(top, top[1].oid, images)]
                /\ acc' = [o \in Procs |->
                              [acc[o] EXCEPT !.all_results =
                                  SetImages(@, top[1].oid, images)]]
                /\ store' = [i \in 1..Len(store) |->
                                [store[i] EXCEPT !.data =
                                    SetImages(@, top[1].oid, images)]]
    /\ pc' = [pc EXCEPT ![p] = "done"]
    /\ UNCHANGED <<now, last, args, idx, srch, searched, fetched, usage, ncalls>>
    /\ UNCHANGED <<conf, rcall, orch, thr>>

\* The caller has taken the result; the request and its context are over.
Return(p) ==
    /\ pc[p] = "done"
    /\ pc' = [pc EXCEPT ![p] = "idle"]
    /\ args' = [args EXCEPT ![p] = NoArgs]
    /\ idx' = [idx EXCEPT ![p] = 1]
    /\ acc' = [acc EXCEPT ![p] = EmptyAcc]
    /\ srch' = [srch EXCEPT ![p] = NoSearch]
    /\ searched' = [searched EXCEPT ![p] = <<>>]
    /\ fetched' = [fetched EXCEPT ![p] = <<>>]
    /\ ret' = [ret EXCEPT ![p] = <<>>]
    /\ usage' = [usage EXCEPT ![p] = NoUsage]
    /\ UNCHANGED ncalls
    /\ UNCHANGED cacheVars
    /\ UNCHANGED <<conf, rcall, orch, thr>>

Next ==
    \/ Tick
    \/ \E p \in Procs, plan \in SearchPlans : StartSearch(p, QB, plan)
    \/ \E p \in Procs, qs \in QueryLists, plan \in MultiPlans : StartMulti(p, qs, plan)
    \/ \E p \in Procs : SearchHit(p)
    \/ \E p \in Procs : ncalls < MaxCalls /\ SearchMiss(p)
    \/ \E p \in Procs : ProviderRaise(p)
    \/ \E p \in Procs, response \in Responses : ProviderReturn(p, response)
    \/ \E p \in Procs : MqsFinish(p)
    \/ \E p \in Procs : Return(p)

\* Requests that search through the shared cache, one at a time.
Spec == Init /\ [][Next]_vars

\* Requests whose provider call is a suspension point: a request may enter
\* search while another one waits for the provider.  The searches overlap
\* in time, so the clock stands still; one call more than the cache has
\* room for is made.
ConcNext ==
    \/ \E p \in Procs, q \in {QA, QB, QC}, plan \in SearchPlans :
           CallSearch(p, q, plan)
    \/ \E p \in Procs : SearchHit(p)
    \/ \E p \in Procs : ncalls <= MaxCalls /\ SearchMiss(p)
    \/ \E p \in Procs : ProviderRaise(p)
    \/ \E p \in Procs : ProviderReturn(p, RespB)
    \/ \E p \in Procs : Return(p)

\* Searches that interleave at the provider call.
ConcSpec == Init /\ [][ConcNext]_vars

\* Queries that differ in form only, so that the second search of a
\* request has the key of the first.
RepeatLists == {<<QAv, QA>>}

RepeatNext ==
    \/ Tick
    \/ \E p \in Procs, qs \in RepeatLists, plan \in {None, NewsPlan} :
           StartMulti(p, qs, plan)
    \/ \E p \in Procs : SearchHit(p)
    \/ \E p \in Procs : ncalls < MaxCalls /\ SearchMiss(p)
    \/ \E p \in Procs : ProviderRaise(p)
    \/ \E p \in Procs, response \in {RespEmpty, RespB, RespMany} :
           ProviderReturn(p, response)
    \/ \E p \in Procs : MqsFinish(p)
    \/ \E p \in Procs : Return(p)

\* Requests that search one key twice in a row, with and without images
\* requested, and get empty, plain and image-rich responses.
RepeatSpec == Init /\ [][RepeatNext]_vars

(***************************************************************************)
(* Calls of the SearchRouter methods.                                      *)
(***************************************************************************)
\* A question of n words.
RECURSIVE WordsQ(_)
WordsQ(n) == IF n = 1 THEN <<"w">> ELSE <<"w", " ">> \o WordsQ(n - 1)

\* Questions: of 1, 15, 16, 40 and 41 words, and two that the concept query
\* of the concept "a" repeats up to case and surrounding whitespace.
Questions ==
    {WordsQ(n) : n \in {1, 15, 16, 40, 41}}
        \cup {<<"A">> \o SufExplained, <<"a">> \o SufInDepth \o <<" ">>}

ConceptLists ==
    {<<>>, <<<<"a">>>>, <<<<"a">>, <<"b">>>>,
     <<<<"a">>, <<"b">>, <<"c">>, <<"d">>>>,
     <<<<"a">>, <<"b">>, <<"c">>, <<"d">>, <<"e">>>>}

Intents ==
    {None} \cup
    [difficulty_level : {"beginner", "intermediate", "advanced"},
     question_type : {"conceptual", "practical", "mathematical", "mixed"},
     requires_visuals : BOOLEAN, requires_math : BOOLEAN,
     requires_code : BOOLEAN, key_concepts : ConceptLists,
     confidence : {74, 75}]

\* The plans generate_queries is given: the presets of the router, and
\* hand-built plans of 0 to MaxNumQueries queries.
GenPlans ==
    {Preset(c, TRUE) : c \in {"simple", "moderate", "complex"}}
        \cup {[Preset("complex", FALSE) EXCEPT !.num_queries = n] :
                 n \in 0..MaxNumQueries}

\* A question and an intent reach the router.
RouterInit ==
    /\ Idle
    /\ conf = [ttl |-> Ttl, max_size |-> MaxSize]
    /\ \E query \in Questions, intent \in Intents :
           rcall = [op |-> "none", query |-> query, intent |-> intent]

\* SearchRouter._classify_complexity(intent, query) is called.
ClassifyCall ==
    /\ rcall.op = "none"
    /\ rcall' = [op |-> "classify", query |-> rcall.query,
                 intent |-> rcall.intent,
                 is_simple |-> /\ rcall.intent # None
                               /\ IsSimple(rcall.intent, rcall.query),
                 is_complex |-> /\ rcall.intent # None
                                /\ IsComplex(rcall.intent, rcall.query),
                 out |-> ClassifyComplexity(rcall.intent, rcall.query)]
    /\ UNCHANGED cacheVars
    /\ UNCHANGED agentVars
    /\ UNCHANGED <<conf, orch, thr>>

\* SearchRouter.plan(query, intent, force_images) is called.
PlanCall(force_images) ==
    /\ rcall.op = "none"
    /\ rcall' = [op |-> "plan", query |-> rcall.query, intent |-> rcall.intent,
                 force_images |-> force_images,
                 out |-> RouterPlan(rcall.query, rcall.intent, force_images)]
    /\ UNCHANGED cacheVars
    /\ UNCHANGED agentVars
    /\ UNCHANGED <<conf, orch, thr>>

\* SearchRouter.generate_queries(original_question, intent, plan) is called.
GenerateCall(plan) ==
    /\ rcall.op = "none"
    /\ rcall' = [op |-> "generate", query |-> rcall.query,
                 intent |-> rcall.intent, plan |-> plan,
                 out |-> GenerateQueries(rcall.query, rcall.intent, plan)]
    /\ UNCHANGED cacheVars
    /\ UNCHANGED agentVars
    /\ UNCHANGED <<conf, orch, thr>>

RouterNext ==
    \/ ClassifyCall
    \/ \E force_images \in BOOLEAN : PlanCall(force_images)
    \/ \E plan \in GenPlans : GenerateCall(plan)

\* One call of a method of the router, on any question and intent.
RouterSpec == RouterInit /\ [][RouterNext]_vars

(***************************************************************************)
(* One request through the workflow graph: one step per node.              *)
(* orch.node is the node that runs next, orch.trace the nodes that have    *)
(* completed, orch.passes the times the retry edge was taken.              *)
(***************************************************************************)
\* The nodes that write neither retries, quality_score nor the teaching
\* response, and that catch the errors of the calls they make.
PassNodes ==
    {"classify_intent", "plan_search", "generate_queries", "search_web",
     "extract_content", "select_images"}

\* process_question starts the graph on the initial state.
ProcessQuestion ==
    /\ orch.node = "none"
    /\ orch' = [node |-> EntryPoint, state |-> InitialState, trace |-> <<>>,
                passes |-> 0]
    /\ UNCHANGED cacheVars
    /\ UNCHANGED agentVars
    /\ UNCHANGED <<conf, rcall, thr>>

\* A node of PassNodes runs and the graph follows its edge.
PassNode(node) ==
    /\ orch.node = node
    /\ orch' = [orch EXCEPT !.node = Edge(node), !.trace = Append(@, node)]
    /\ UNCHANGED cacheVars
    /\ UNCHANGED agentVars
    /\ UNCHANGED <<conf, rcall, thr>>

\* synthesize_teaching_node puts the response of the agent in the metadata.
SynthesizeTeachingNode(response) ==
    /\ orch.node = "synthesize_teaching"
    /\ orch' = [orch EXCEPT !.node = Edge("synthesize_teaching"),
                            !.trace = Append(@, "synthesize_teaching"),
                            !.state.teaching_response = Some(response)]
    /\ UNCHANGED cacheVars
    /\ UNCHANGED agentVars
    /\ UNCHANGED <<conf, rcall, thr>>

\* TeachingSynthesisAgent.synthesize raises: the graph run ends with the
\* exception and process_question raises it again.
SynthesizeRaises ==
    /\ orch.node = "synthesize_teaching"
    /\ orch' = [orch EXCEPT !.node = "raised"]
    /\ UNCHANGED cacheVars
    /\ UNCHANGED agentVars
    /\ UNCHANGED <<conf, rcall, thr>>

\* assess_quality_node writes quality_score, then the conditional edge asks
\* should_retry where to go.
AssessQualityNode ==
    /\ orch.node = "assess_quality"
    /\ LET state == [orch.state EXCEPT !.quality_score =
                        AssessQuality(orch.state.teaching_response)]
           route == ShouldRetry(state)
       IN  /\ route = "retry" => orch.passes < MaxPasses
           /\ orch' = [node |-> RetryRoute(route), state |-> state,
                       trace |-> Append(orch.trace, "assess_quality"),
                       passes |-> IF route = "retry" THEN orch.passes + 1
                                  ELSE orch.passes]
    /\ UNCHANGED cacheVars
    /\ UNCHANGED agentVars
    /\ UNCHANGED <<conf, rcall, thr>>

GraphNext ==
    \/ ProcessQuestion
    \/ \E node \in PassNodes : PassNode(node)
    \/ \E response \in TeachingResponses : SynthesizeTeachingNode(response)
    \/ SynthesizeRaises
    \/ AssessQualityNode

\* One request through the graph, whatever the synthesis gives.
GraphSpec == Init /\ [][GraphNext]_vars

(***************************************************************************)
(* Properties of the cache.                                                *)
(***************************************************************************)
\* The key the latest direct call addressed.
LastKey == MakeKey(last.query, last.depth, last.max_results, last.include_raw)

Keys(st) == {st[i].key : i \in 1..Len(st)}

\* The dict holds one entry per key and no entry from the future.
StoreOK ==
    /\ \A i, j \in 1..Len(store) : store[i].key = store[j].key => i = j
    /\ \A i \in 1..Len(store) : store[i].ts <= now

\* C1: whatever get, put and clear calls were made, the store never holds
\* more than max_size entries, expired ones included.
C1_SizeBounded == Len(store) <= MaxSize

\* A put made at capacity has left the store at capacity.
C1_Witness ==
    /\ last.op = "put"
    /\ Len(last.before) = MaxSize
    /\ Len(store) = MaxSize

\* C2: a put made while the store holds max_size entries removes exactly one
\* entry, one of least write timestamp, and then writes its own; a get leaves
\* every timestamp as it was; a new key put at capacity after strictly older
\* distinct writes drops the first written key and leaves max_size entries.
C2_EvictsOldestWritten ==
    LET b == last.before
        k == LastKey
    IN  /\ (last.op = "put" /\ Len(b) >= MaxSize) =>
               /\ \E i \in 1..Len(b) :
                      /\ \A j \in 1..Len(b) : b[i].ts <= b[j].ts
                      /\ {e \in Range(store) : e.key # k}
                           = {b[j] : j \in {n \in 1..Len(b) : n # i /\ b[n].key # k}}
               /\ \E e \in Range(store) :
                      e = [key |-> k, ts |-> last.at, data |-> last.data]
        /\ last.op = "get" => Range(store) \subseteq Range(b)
        /\ ( /\ last.op = "put"
             /\ Len(b) = MaxSize
             /\ k \notin Keys(b)
             /\ \A i, j \in 1..Len(b) : i < j => b[i].ts < b[j].ts
             /\ b[Len(b)].ts < last.at )
           => /\ b[1].key \notin Keys(store)
              /\ Len(store) = MaxSize

\* A new key was put at capacity and the entry written first is the one
\* that went.
C2_Witness ==
    /\ last.op = "put"
    /\ Len(last.before) = MaxSize
    /\ LastKey \notin Keys(last.before)
    /\ last.before[1].ts < last.before[2].ts
    /\ last.before[1].key \notin Keys(store)
    /\ Len(store) = MaxSize

\* C3: a get made right after a put with the same arguments, no later than
\* ttl after it, returns the data that was put.
C3_RoundTrip ==
    [][ ( /\ last.op = "put"
          /\ last'.op = "get"
          /\ <<last'.query, last'.depth, last'.max_results, last'.include_raw>>
               = <<last.query, last.depth, last.max_results, last.include_raw>>
          /\ last'.at - last.at <= Ttl )
        => last'.ret = Some(last.data) ]_vars

\* A get directly after a put of the same arguments returned a result list.
C3_Witness ==
    /\ last.op = "get"
    /\ last.afterPut
    /\ ~last.ret.isNone
    /\ last.ret.val # <<>>

\* C4: a get returns None and deletes the entry when its age exceeds ttl,
\* returns the data and keeps the entry when its age is at most ttl, and
\* removes no entry of another key; the passing of time removes nothing.
C4_LazyExpiry ==
    last.op = "get" =>
        LET b == last.before
            k == LastKey
            own == {e \in Range(b) : e.key = k}
        IN  /\ \A e \in own :
                   IF last.at - e.ts > Ttl
                   THEN /\ last.ret = None
                        /\ Range(store) = Range(b) \ {e}
                   ELSE /\ last.ret = Some(e.data)
                        /\ store = b
            /\ own = {} => last.ret = None /\ store = b

\* A get found its entry older than ttl and deleted it.
C4_Witness ==
    /\ last.op = "get"
    /\ last.ret = None
    /\ \E e \in Range(last.before) :
           /\ e.key = LastKey
           /\ last.at - e.ts > Ttl
           /\ e \notin Range(store)

\* A get found its entry at age exactly ttl and returned it.
C4_WitnessAtTtl ==
    /\ last.op = "get"
    /\ ~last.ret.isNone
    /\ \E e \in Range(last.before) :
           e.key = LastKey /\ last.at - e.ts = Ttl /\ e \in Range(store)


(***************************************************************************)
(* Properties of WebSearchAgent.                                           *)
(***************************************************************************)
\* The step is the start of a self.search call of request p.
SearchStarts(p) == Len(searched'[p]) = Len(searched[p]) + 1

\* The step is the end of the provider call of request p.
CallEnds(p) == pc[p] = "await" /\ pc'[p] # "await"

\* The entries of st that a search of query under plan would read as live
\* at time t: same normalised query, depth, max_results, raw flag.
LiveFor(st, t, query, plan) ==
    LET rp == Resolve(plan, Basic, TRUE)
    IN  {e \in Range(st) :
            /\ e.key = MakeKey(query, rp.depth, rp.max_results, rp.raw_content)
            /\ t - e.ts <= Ttl}

\* C5: search never raises; when the provider call raises, or the parse of
\* its response does, search returns the empty list, and that leaves the
\* store as it was when the provider was called and adds nothing to what it
\* held when search was called.
C5_SearchNeverRaises ==
    [][ \A p \in Procs :
          /\ pc'[p] # "raised"
          /\ ( /\ CallEnds(p)
               /\ srch'[p].resp \in {Exception, Some(RespBad)} )
             => /\ srch'[p].ret = <<>>
                /\ args[p].kind = "search" => pc'[p] = "done" /\ ret'[p] = <<>>
                /\ store' = store
                /\ Range(store') \subseteq Range(srch[p].before) ]_vars

\* A search returned the empty list after the provider raised, with the
\* cache holding an entry.
C5_Witness ==
    \E p \in Procs :
        /\ args[p].kind = "search"
        /\ pc[p] = "done"
        /\ srch[p].resp = Exception
        /\ ret[p] = <<>>
        /\ store # <<>>

\* C6: a search that succeeds stores its results under its key, and a
\* search that finds a live entry under its key returns the stored results
\* and makes no provider call.
C6_HitReturnsStored ==
    [][ \A p \in Procs :
          /\ (CallEnds(p) /\ srch'[p].state = "ok") =>
                 \E e \in LiveFor(store', now, srch[p].query, args[p].plan) :
                     e.ts = now /\ e.data = srch'[p].ret
          /\ SearchStarts(p) =>
                 \A e \in LiveFor(store, now, CurQuery(p), args[p].plan) :
                     /\ srch'[p].state = "hit"
                     /\ srch'[p].ret = e.data
                     /\ args[p].kind = "search" => ret'[p] = e.data
                     /\ ncalls' = ncalls
                     /\ usage' = usage
                     /\ pc'[p] # "await" ]_vars

\* A request got from the cache what the one provider call made so far, by
\* an earlier request, had stored: it made no provider call itself.
C6_Witness ==
    \E p \in Procs :
        /\ srch[p].state = "hit"
        /\ srch[p].ret # <<>>
        /\ usage[p] = NoUsage
        /\ ncalls = 1

\* Two plans are cache-equivalent: they agree on search_depth, max_results
\* and include_raw_content.
KeyFieldsAgree(p1, p2) ==
    LET r1 == Resolve(p1, Basic, TRUE)
        r2 == Resolve(p2, Basic, TRUE)
    IN  <<r1.depth, r1.max_results, r1.raw_content>>
            = <<r2.depth, r2.max_results, r2.raw_content>>

\* C7: a search under a plan finds the live entry of any plan that agrees
\* with it on search_depth, max_results and include_raw_content, whatever
\* the other fields of the two plans are: it returns that entry's results
\* as they are and makes no provider call.
C7_CacheEquivalentPlans ==
    [][ \A p \in Procs : SearchStarts(p) =>
          \A other \in Plans : KeyFieldsAgree(other, args[p].plan) =>
              \A e \in LiveFor(store, now, CurQuery(p), other) :
                  /\ srch'[p].state = "hit"
                  /\ srch'[p].ret = e.data
                  /\ ncalls' = ncalls ]_vars

\* A search under NewsPlan (no images, 4000 characters per result) returned
\* cached results with images and with more than 4000 characters.
C7_Witness ==
    \E p \in Procs :
        /\ args[p].plan = NewsPlan
        /\ srch[p].state = "hit"
        /\ srch[p].ret # <<>>
        /\ srch[p].ret[1].images # <<>>
        /\ srch[p].ret[1].content.len > NewsPlan.context_budget_chars

\* The number of queries multi_query_search is to run.
Budget(p) ==
    IF args[p].plan = None THEN Len(args[p].queries)
    ELSE Min(args[p].plan.num_queries, Len(args[p].queries))

\* C8: multi_query_search calls search for the first queries of the list,
\* in list order, never more than plan.num_queries of them (all without a
\* plan), all of those by the time it returns, and starts a search only
\* after the search before it has returned.
C8_QueriesInOrder ==
    [][ \A p \in Procs : args'[p].kind = "mqs" =>
          /\ Len(searched'[p]) <= Budget(p)'
          /\ searched'[p] = SubSeq(args'[p].queries, 1, Len(searched'[p]))
          /\ pc'[p] = "done" => Len(searched'[p]) = Budget(p)'
          /\ Len(searched'[p]) \in {0, Len(searched[p]), Len(searched[p]) + 1}
          /\ SearchStarts(p) =>
                 /\ pc[p] # "await"
                 /\ srch[p].state \in {"none", "hit", "ok", "error"}
                 /\ searched[p] # <<>> => srch[p].query = searched[p][Len(searched[p])]
        ]_vars

\* A multi_query_search of three queries under a plan of one query has
\* returned after one search.
C8_Witness ==
    \E p \in Procs :
        /\ args[p].kind = "mqs"
        /\ pc[p] = "done"
        /\ args[p].plan # None
        /\ args[p].plan.num_queries = 1
        /\ Len(args[p].queries) = 3
        /\ searched[p] = <<args[p].queries[1]>>

\* The positions of fetched[p] that hold the first result met for a url.
Firsts(p) ==
    {j \in 1..Len(fetched[p]) :
        \A i \in 1..(j - 1) : fetched[p][i].url # fetched[p][j].url}

\* multi_query_search of request p has returned.
MqsDone(p) == args[p].kind = "mqs" /\ pc[p] = "done"

\* Position in fetched[p] of the result object r was taken from.
FirstSeen(p, r) ==
    CHOOSE j \in Firsts(p) : fetched[p][j].oid = r.oid

\* C9: the list multi_query_search returns holds no url twice, and each
\* result in it is the first one met for its url in the results of the
\* executed queries, taken in query order and result order.
C9_UniqueUrls ==
    \A p \in Procs : MqsDone(p) =>
        /\ \A i, j \in 1..Len(ret[p]) : ret[p][i].url = ret[p][j].url => i = j
        /\ \A i \in 1..Len(ret[p]) :
               \E j \in Firsts(p) : fetched[p][j].oid = ret[p][i].oid

\* Two different results with one url were met, the first is returned, and
\* a url that differs from another in case only is returned as well.
C9_Witness ==
    \E p \in Procs :
        /\ MqsDone(p)
        /\ \E i, j \in 1..Len(fetched[p]) :
               /\ i < j
               /\ fetched[p][i].url = fetched[p][j].url
               /\ fetched[p][i].oid # fetched[p][j].oid
               /\ \E k \in 1..Len(ret[p]) : ret[p][k].oid = fetched[p][i].oid
        /\ \E i, j \in 1..Len(ret[p]) :
               /\ ret[p][i].url # ret[p][j].url
               /\ Lower(ret[p][i].url) = Lower(ret[p][j].url)

\* The cap of the returned list (search_agent.py 171).
CapOf(p) ==
    IF args[p].plan = None THEN MaxSearchResults ELSE args[p].plan.max_results

\* C10: the list multi_query_search returns is in non-increasing order of
\* score, has min(cap, number of unique urls) elements, no result left out
\* scores higher than one that is in, and among results of equal score the
\* ones met first come first and are the ones kept.
C10_TopByScore ==
    \A p \in Procs : MqsDone(p) =>
        LET r == ret[p]
            in == {FirstSeen(p, r[i]) : i \in 1..Len(r)}
            out == Firsts(p) \ in
        IN  /\ \A i \in 1..Len(r) :
                   \E j \in Firsts(p) : fetched[p][j].oid = r[i].oid
            /\ Len(r) = Min(CapOf(p), Cardinality(Firsts(p)))
            /\ \A i, j \in 1..Len(r) : i < j =>
                   /\ r[i].score >= r[j].score
                   /\ r[i].score = r[j].score
                        => FirstSeen(p, r[i]) < FirstSeen(p, r[j])
            /\ \A o \in out : \A i \in in :
                   /\ fetched[p][o].score <= fetched[p][i].score
                   /\ fetched[p][o].score = fetched[p][i].score => i < o

\* A returned list was cut to the cap, and a result was left out for one
\* of equal score met before it.
C10_Witness ==
    \E p \in Procs :
        /\ MqsDone(p)
        /\ Len(ret[p]) = CapOf(p)
        /\ \E o \in Firsts(p) :
               /\ \A i \in 1..Len(ret[p]) : ret[p][i].oid # fetched[p][o].oid
               /\ fetched[p][o].score = ret[p][Len(ret[p])].score
        /\ \E i \in 1..(Len(ret[p]) - 1) : ret[p][i].score > ret[p][i + 1].score

(***************************************************************************)
(* Properties of the image pool of multi_query_search.                     *)
(***************************************************************************)
\* The images of a list of results, in the order the loop meets them.
RECURSIVE ImagesOf(_)
ImagesOf(results) ==
    IF results = <<>> THEN <<>>
    ELSE Head(results).images \o ImagesOf(Tail(results))

\* The images the searches of request p have carried so far.
Carried(p) == ImagesOf(fetched[p])

\* C11: the image pool of multi_query_search holds, for every normalized
\* image url carried by a result of an executed query, kept or dropped as a
\* duplicate, exactly one url, and that url is the first one carried with
\* that normalized form; it holds nothing else, in the order first met.
C11_ImagePool ==
    \A p \in Procs : args[p].kind = "mqs" =>
        LET pool == acc[p].all_image_urls
            all == Carried(p)
            first(n) == CHOOSE i \in 1..Len(all) :
                            /\ NormImg(all[i]) = n
                            /\ \A j \in 1..(i - 1) : NormImg(all[j]) # n
        IN  /\ \A i \in 1..Len(all) :
                   Cardinality({k \in 1..Len(pool) :
                                   NormImg(pool[k]) = NormImg(all[i])}) = 1
            /\ \A k \in 1..Len(pool) :
                   /\ \E i \in 1..Len(all) : NormImg(all[i]) = NormImg(pool[k])
                   /\ pool[k] = all[first(NormImg(pool[k]))]
            /\ \A k, l \in 1..Len(pool) : k < l =>
                   first(NormImg(pool[k])) < first(NormImg(pool[l]))

\* A multi_query_search has returned whose pool holds an image that only a
\* result dropped as a duplicate url carried, and which met two image urls
\* that differ in their query-string suffix and pooled the first.
C11_Witness ==
    \E p \in Procs :
        /\ MqsDone(p)
        /\ \E j \in (1..Len(fetched[p])) \ Firsts(p) :
               \E u \in Range(fetched[p][j].images) :
                   /\ u \in Range(acc[p].all_image_urls)
                   /\ \A i \in Firsts(p) : u \notin Range(fetched[p][i].images)
        /\ \E u, v \in Range(Carried(p)) :
               /\ u # v
               /\ NormImg(u) = NormImg(v)
               /\ u \in Range(acc[p].all_image_urls)
               /\ v \notin Range(acc[p].all_image_urls)

\* The urls of pool whose normalized form is not among those of images.
RECURSIVE NotIn(_, _)
NotIn(pool, images) ==
    IF pool = <<>> THEN <<>>
    ELSE IF \E u \in Range(images) : NormImg(u) = NormImg(Head(pool))
         THEN NotIn(Tail(pool), images)
         ELSE <<Head(pool)>> \o NotIn(Tail(pool), images)

\* The step in which multi_query_search of request p returns.
MqsReturns(p) == args[p].kind = "mqs" /\ pc[p] = "loop" /\ pc'[p] = "done"

\* C12: when multi_query_search returns a non-empty list, the images of its
\* first result are the ones the search gave that result followed by the
\* pooled urls whose normalized form was not among them, in pool order, and
\* every other returned result has the images its search gave it.
C12_ImagesOnFirst ==
    [][\A p \in Procs : MqsReturns(p) /\ ret'[p] # <<>> =>
          LET r == ret'[p]
              was(i) == fetched[p][FirstSeen(p, r[i])].images
          IN  /\ r[1].images = was(1) \o NotIn(acc[p].all_image_urls, was(1))
              /\ \A i \in 2..Len(r) : r[i].images = was(i)]_vars

\* A returned first result got a pooled image appended, another pooled
\* image was skipped as present already, and a later result of the list
\* kept images of its own.
C12_Witness ==
    \E p \in Procs :
        /\ MqsDone(p)
        /\ ret[p] # <<>>
        /\ LET was == fetched[p][FirstSeen(p, ret[p][1])].images
           IN  /\ was # <<>>
               /\ Len(ret[p][1].images) > Len(was)
               /\ \E u \in Range(acc[p].all_image_urls) :
                      /\ u \notin Range(ret[p][1].images)
                      /\ \E v \in Range(was) : NormImg(v) = NormImg(u)
        /\ \E i \in 2..Len(ret[p]) : ret[p][i].images # <<>>

(***************************************************************************)
(* Properties of the router.                                               *)
(***************************************************************************)
\* The number of words of the query of the latest router call.
NWords == Len(Split(rcall.query))

\* C13: _classify_complexity returns MODERATE for no intent; otherwise
\* SIMPLE exactly when confidence >= 0.75, difficulty is BEGINNER, the
\* question type is CONCEPTUAL or PRACTICAL, there are at most 2 key
\* concepts and at most 15 words; otherwise COMPLEX exactly when difficulty
\* is ADVANCED, or the type is MATHEMATICAL, or math and code are both
\* required, or there are at least 5 key concepts, or more than 40 words;
\* otherwise MODERATE.  Every ADVANCED intent yields COMPLEX.
C13_Classification ==
    rcall.op = "classify" =>
        LET i == rcall.intent
            simple ==
                /\ i.confidence >= 75
                /\ i.difficulty_level = "beginner"
                /\ i.question_type \in {"conceptual", "practical"}
                /\ Len(i.key_concepts) <= 2
                /\ NWords <= 15
            complex ==
                \/ i.difficulty_level = "advanced"
                \/ i.question_type = "mathematical"
                \/ (i.requires_math /\ i.requires_code)
                \/ Len(i.key_concepts) >= 5
                \/ NWords > 40
        IN  IF i = None THEN rcall.out = "moderate"
            ELSE /\ rcall.out = "simple" <=> simple
                 /\ rcall.out = "complex" <=> ~simple /\ complex
                 /\ rcall.out = "moderate" <=> ~simple /\ ~complex
                 /\ i.difficulty_level = "advanced" => rcall.out = "complex"

\* A query of 41 words alone made an intent COMPLEX.
C13_Witness ==
    /\ rcall.op = "classify"
    /\ rcall.intent # None
    /\ rcall.out = "complex"
    /\ NWords = 41
    /\ rcall.intent.difficulty_level = "intermediate"
    /\ rcall.intent.question_type = "conceptual"
    /\ ~rcall.intent.requires_math
    /\ Len(rcall.intent.key_concepts) < 5

\* Classifications at the other edges: 15 words and confidence 0.75 are
\* SIMPLE, 16 words and 40 words are MODERATE.
C13_WitnessEdges ==
    /\ rcall.op = "classify"
    /\ rcall.intent # None
    /\ \/ rcall.out = "simple" /\ NWords = 15 /\ rcall.intent.confidence = 75
       \/ rcall.out = "moderate" /\ NWords = 40

\* C14: plan returns the preset of the classified complexity in every
\* field: SIMPLE (basic, 3 results, 1 query, no raw content, budget 4000),
\* MODERATE (basic, 5, 2, no raw content, 6000), COMPLEX (advanced, 7, 3,
\* raw content, 12000), so the depth is advanced exactly for COMPLEX;
\* include_images is force_images or intent.requires_visuals, and true
\* without an intent; include_answer is true, include_domains is empty and
\* exclude_domains is the list of low-quality domains.
C14_PlanIsPreset ==
    rcall.op = "plan" =>
        LET p == rcall.out
            i == rcall.intent
            fields == <<p.search_depth, p.max_results, p.num_queries,
                        p.include_raw_content, p.context_budget_chars>>
        IN  /\ p.complexity = ClassifyComplexity(i, rcall.query)
            /\ p.complexity = "simple" =>
                   fields = <<Basic, 3, 1, FALSE, 4000>>
            /\ p.complexity = "moderate" =>
                   fields = <<Basic, 5, 2, FALSE, 6000>>
            /\ p.complexity = "complex" =>
                   fields = <<Advanced, 7, 3, TRUE, 12000>>
            /\ p.complexity \in {"simple", "moderate", "complex"}
            /\ p.search_depth = Advanced <=> p.complexity = "complex"
            /\ p.include_images
                   <=> (rcall.force_images \/ i = None \/ i.requires_visuals)
            /\ p.include_answer
            /\ p.include_domains = <<>>
            /\ p.exclude_domains =
                   <<"pinterest.com", "quora.com", "tiktok.com",
                     "facebook.com", "instagram.com", "twitter.com">>

\* A plan was made for an intent that needs no visuals, without forcing
\* images: a COMPLEX plan with no images.
C14_Witness ==
    /\ rcall.op = "plan"
    /\ rcall.intent # None
    /\ ~rcall.force_images
    /\ ~rcall.intent.requires_visuals
    /\ ~rcall.out.include_images
    /\ rcall.out.complexity = "complex"
    /\ rcall.out.search_depth = Advanced

\* A plan made without an intent: MODERATE, with images.
C14_WitnessNoIntent ==
    /\ rcall.op = "plan"
    /\ rcall.intent = None
    /\ ~rcall.force_images
    /\ rcall.out.include_images
    /\ rcall.out.complexity = "moderate"

\* A query as the de-duplication compares it: trimmed and lowercased.
Trimmed(q) == Lower(Strip(q))

\* The strings of seq are pairwise different once trimmed and lowercased.
Distinct(seq) ==
    \A i, j \in 1..Len(seq) : Trimmed(seq[i]) = Trimmed(seq[j]) => i = j

\* C15: generate_queries returns at most plan.num_queries strings, and no
\* two of them are equal after trimming and lowercasing.
C15_AtMostDistinct ==
    rcall.op = "generate" =>
        /\ Len(rcall.out) <= rcall.plan.num_queries
        /\ Distinct(rcall.out)

\* The concept query repeated the question up to case, and was dropped:
\* a plan of two queries got the question alone.
C15_Witness ==
    /\ rcall.op = "generate"
    /\ rcall.intent # None
    /\ rcall.plan.num_queries = 2
    /\ rcall.out = <<rcall.query>>
    /\ rcall.query # Trimmed(rcall.query)

\* C16: given the plan the router makes for the question and the intent,
\* generate_queries returns exactly plan.num_queries strings, pairwise
\* different after trimming and lowercasing.
C16_ExactlyNumQueries ==
    /\ rcall.op = "generate"
    /\ rcall.plan = RouterPlan(rcall.query, rcall.intent, FALSE)
    =>
        /\ Len(rcall.out) = rcall.plan.num_queries
        /\ Distinct(rcall.out)

\* C17: for a plan of at least one query the first string returned is the
\* original question as given, and for a plan of one query the result is
\* the list of the original question alone, whatever the intent.
C17_OriginalFirst ==
    rcall.op = "generate" /\ rcall.plan.num_queries >= 1 =>
        /\ rcall.out # <<>>
        /\ rcall.out[1] = rcall.query
        /\ rcall.plan.num_queries = 1 => rcall.out = <<rcall.query>>

\* A plan of one query, an intent with concepts that requires math, and a
\* question that trimming would change: the question alone is returned.
C17_Witness ==
    /\ rcall.op = "generate"
    /\ rcall.intent # None
    /\ rcall.intent.key_concepts # <<>>
    /\ rcall.intent.requires_math
    /\ rcall.query # Strip(rcall.query)
    /\ rcall.plan.num_queries = 1
    /\ rcall.out = <<rcall.query>>

\* A plan of three queries returned the question first, followed by two
\* queries built from it.
C17_WitnessThree ==
    /\ rcall.op = "generate"
    /\ rcall.plan.num_queries = 3
    /\ Len(rcall.out) = 3
    /\ rcall.out[1] = rcall.query

\* The suffix of the specialised query the priority math, code, visuals
\* selects for an intent.
Priority(i) ==
    IF i # None /\ i.requires_math THEN SufMath
    ELSE IF i # None /\ i.requires_code THEN SufCode
    ELSE IF i # None /\ i.requires_visuals THEN SufVisual
    ELSE SufExamples

\* C18: for a plan of at least 3 queries the result holds exactly one
\* specialised query, the question followed by the suffix selected by
\* priority: math, else code, else visuals, else examples (also without
\* an intent); no query with another specialised suffix is in the result.
C18_OneSpecialised ==
    rcall.op = "generate" /\ rcall.plan.num_queries >= 3 =>
        \A suf \in {SufMath, SufCode, SufVisual, SufExamples} :
            (rcall.query \o suf) \in Range(rcall.out)
                <=> suf = Priority(rcall.intent)

\* An intent requiring math, code and visuals got the math query.
C18_Witness ==
    /\ rcall.op = "generate"
    /\ rcall.plan.num_queries >= 3
    /\ rcall.intent # None
    /\ rcall.intent.requires_math
    /\ rcall.intent.requires_code
    /\ rcall.intent.requires_visuals
    /\ rcall.out[Len(rcall.out)] = rcall.query \o SufMath

\* Without an intent the examples query is the third.
C18_WitnessNoIntent ==
    /\ rcall.op = "generate"
    /\ rcall.plan.num_queries = 3
    /\ rcall.intent = None
    /\ rcall.out[3] = rcall.query \o SufExamples

(***************************************************************************)
(* Properties of a cache of any configuration.                             *)
(***************************************************************************)
\* C19: get, put and clear never raise, whatever the arguments, the content
\* of the cache and its ttl and max_size.
C19_NeverRaises == ~last.raised

\* A call with these arguments addresses the entry the latest put wrote.
Addresses(q, d, m, r) ==
    IndexOf(store, MakeKey(q, d, m, r)) = IndexOf(store, LastKey)

\* C20 as stated: calls whose query or depth differ only in letter case or
\* in surrounding whitespace address the same entry, and calls that differ
\* in a component after that normalisation address different entries.
C20_KeyNormalisesAll ==
    last.op = "put" /\ ~last.raised =>
        \A i \in ConfInputs :
            Addresses(i[1], i[2], i[3], i[4])
                <=> /\ Lower(Strip(i[1])) = Lower(Strip(last.query))
                    /\ Lower(Strip(i[2])) = Lower(Strip(last.depth))
                    /\ i[3] = last.max_results
                    /\ i[4] = last.include_raw

\* C20 as amended: calls whose query differs only in letter case or in
\* surrounding whitespace address the same entry; calls that differ in the
\* normalised query, or in depth, max_results or include_raw as given,
\* address different entries.
C20_KeyNormalisesQuery ==
    last.op = "put" /\ ~last.raised =>
        \A i \in ConfInputs :
            Addresses(i[1], i[2], i[3], i[4])
                <=> /\ Lower(Strip(i[1])) = Lower(Strip(last.query))
                    /\ i[2] = last.depth
                    /\ i[3] = last.max_results
                    /\ i[4] = last.include_raw

\* A put of " A" has overwritten, in place, the one entry that an earlier
\* put wrote under the key of "a".
C20_Witness ==
    /\ last.op = "put"
    /\ ~last.raised
    /\ last.query = <<" ", "A">>
    /\ last.depth = Basic
    /\ Len(last.before) = 1
    /\ last.before[1].key = MakeKey(<<"a">>, Basic, 3, FALSE)
    /\ last.before[1].ts < now
    /\ Len(store) = 1
    /\ store[1].key = last.before[1].key
    /\ store[1].ts = now

\* A put under the depth "Basic " has added an entry beside the one of the
\* same query under the depth "basic".
C20_WitnessDepth ==
    /\ last.op = "put"
    /\ ~last.raised
    /\ last.query = <<"a">>
    /\ last.depth = BasicVariant
    /\ Len(store) = 2
    /\ store[1].key = MakeKey(<<"a">>, Basic, 3, FALSE)
    /\ store[2].key = MakeKey(<<"a">>, BasicVariant, 3, FALSE)


(***************************************************************************)
(* Properties of the workflow graph.                                       *)
(***************************************************************************)
\* The positions of the trace at which the node completed.
RunsOf(node) == {i \in 1..Len(orch.trace) : orch.trace[i] = node}

\* The nodes that have started: those completed and the one running.
Started ==
    IF orch.node \in Range(Stages) THEN Append(orch.trace, orch.node)
    ELSE orch.trace

\* C21: the stages of a request run in the fixed order classify_intent,
\* plan_search, generate_queries, search_web, extract_content,
\* select_images, synthesize_teaching, assess_quality: a request starts at
\* classify_intent, every stage is followed by the next one of the order
\* except that assess_quality may be followed by generate_queries (the only
\* backward edge), search_web starts only after plan_search and
\* generate_queries have completed, and plan_search runs exactly once in a
\* request that got past it.
C21_StageOrder ==
    /\ Started # <<>> => Started[1] = "classify_intent"
    /\ \A i \in 1..(Len(Started) - 1) :
           \/ \E k \in 1..(Len(Stages) - 1) :
                  Started[i] = Stages[k] /\ Started[i + 1] = Stages[k + 1]
           \/ Started[i] = "assess_quality" /\ Started[i + 1] = "generate_queries"
    /\ \A i \in 1..Len(Started) :
           Started[i] = "search_web" =>
               /\ \E j \in 1..(i - 1) : orch.trace[j] = "plan_search"
               /\ orch.trace[i - 1] = "generate_queries"
    /\ Cardinality(RunsOf("plan_search")) <= 1
    /\ Len(orch.trace) >= 2 => Cardinality(RunsOf("plan_search")) = 1

\* A request ended after two passes of the retry edge: plan_search ran
\* once, search_web three times.
C21_Witness ==
    /\ orch.node = END
    /\ orch.passes = 2
    /\ Cardinality(RunsOf("plan_search")) = 1
    /\ Cardinality(RunsOf("search_web")) = 3


\* C27: a request takes the retry edge at most settings.max_retries times,
\* also when every pass yields a quality score below 0.2.
C27_AtMostMaxRetries == orch.passes <= MaxRetries


(***************************************************************************)
(* Properties of the parse of a provider response.                         *)
(***************************************************************************)
\* The images of the response the latest search of p received.
TavilyImages(p) == DictGet(srch[p].resp.val, "images", <<>>)

\* C22: in the result list search builds from a provider response only the
\* first result carries images: the provider's images cut to
\* settings.max_images_per_response when images are requested and the
\* provider returned some, none otherwise; every other result has an empty
\* image list.
C22_ImagesOnFirstParsed ==
    \A p \in Procs :
        srch[p].state = "ok" =>
            LET results == srch[p].ret
                given == TavilyImages(p)
            IN  /\ \A i \in 2..Len(results) : results[i].images = <<>>
                /\ results # <<>> =>
                       IF Resolved(p).images /\ given # <<>>
                       THEN /\ Len(results[1].images) =
                                   Min(Len(given), MaxImagesPerResponse)
                            /\ \A k \in 1..Len(results[1].images) :
                                   results[1].images[k] = given[k]
                       ELSE results[1].images = <<>>

\* A response of two results and more images than the cap: the first
\* result holds the first max_images_per_response of them.
C22_Witness ==
    \E p \in Procs :
        /\ srch[p].state = "ok"
        /\ Len(srch[p].ret) = 2
        /\ Len(TavilyImages(p)) > MaxImagesPerResponse
        /\ Len(srch[p].ret[1].images) = MaxImagesPerResponse

\* The provider returned images that the search did not ask for.
C22_WitnessNotRequested ==
    \E p \in Procs :
        /\ srch[p].state = "ok"
        /\ srch[p].ret # <<>>
        /\ ~Resolved(p).images
        /\ TavilyImages(p) # <<>>
        /\ srch[p].ret[1].images = <<>>


(***************************************************************************)
(* Properties of a put for a key that is already stored.                   *)
(***************************************************************************)
\* The latest call was a put for a stored key, made with the store full.
OverwriteAtCapacity ==
    /\ last.op = "put"
    /\ ~last.raised
    /\ Len(last.before) = conf.max_size
    /\ LastKey \in Keys(last.before)

\* C23: put checks the capacity before it looks at the key: a put for a
\* key that is already stored, made while the store holds max_size entries,
\* still deletes the oldest entry; when that entry belongs to another key
\* the store ends with max_size - 1 entries and without that key, although
\* no key was added.
C23_OverwriteEvicts ==
    OverwriteAtCapacity =>
        LET oldest == last.before[OldestIdx(last.before)]
        IN  /\ \A i \in 1..Len(store) :
                   store[i].key = oldest.key => store[i].key = LastKey
            /\ oldest.key # LastKey =>
                   /\ Len(store) = conf.max_size - 1
                   /\ oldest.key \notin Keys(store)
                   /\ Keys(store) = Keys(last.before) \ {oldest.key}
            /\ LastKey \in Keys(store)

\* A full store of two live entries lost the older one to a put that
\* overwrote the newer one.
C23_Witness ==
    /\ OverwriteAtCapacity
    /\ last.before[OldestIdx(last.before)].key # LastKey
    /\ last.at - last.before[OldestIdx(last.before)].ts <= conf.ttl
    /\ Len(last.before) = 2
    /\ Len(store) = 1


(***************************************************************************)
(* Properties of put calls that interleave.                                *)
(***************************************************************************)
\* C24: when the capacity check and eviction of one put interleave with
\* the insert of another, the store can come to hold max_size + 1 entries,
\* or an entry other than the oldest one is evicted; with two threads the
\* store never holds more than max_size + 1 entries, and it holds one
\* entry per key.
C24_RaceExceedsByOne ==
    /\ Len(store) <= conf.max_size + 1
    /\ \A i, j \in 1..Len(store) : store[i].key = store[j].key => i = j

\* Two puts have interleaved and the store holds max_size + 1 entries.
C24_Witness ==
    /\ Len(store) = conf.max_size + 1
    /\ \A p \in Procs : thr[p].pc = "idle" /\ ~thr[p].raised

\* A put deleted an entry that was no longer the oldest one.
C24_WitnessNotOldest ==
    \E p \in Procs :
        /\ thr[p].pc = "idle"
        /\ thr[p].not_oldest


(***************************************************************************)
(* Properties of the two conditions of the classification.                 *)
(***************************************************************************)
\* C25 as stated: no intent and query satisfy both the SIMPLE and the
\* COMPLEX condition of _classify_complexity.
C25_Exclusive ==
    rcall.op = "classify" => ~(rcall.is_simple /\ rcall.is_complex)

\* C25: the SIMPLE and the COMPLEX condition overlap only through the
\* disjunct requires_math and requires_code: an input that satisfies both
\* conditions requires math and code and satisfies no other disjunct of
\* COMPLEX, every input that satisfies SIMPLE and requires math and code
\* satisfies both, and such an input is classified SIMPLE.
C25_OverlapMathAndCode ==
    (rcall.op = "classify" /\ rcall.intent # None) =>
        /\ (rcall.is_simple /\ rcall.is_complex) <=>
               /\ rcall.is_simple
               /\ rcall.intent.requires_math
               /\ rcall.intent.requires_code
        /\ rcall.is_simple =>
               /\ rcall.intent.difficulty_level # "advanced"
               /\ rcall.intent.question_type # "mathematical"
               /\ Len(rcall.intent.key_concepts) < 5
               /\ NWords <= 40
        /\ (rcall.is_simple /\ rcall.is_complex) => rcall.out = "simple"

\* A beginner's conceptual question that requires math and code satisfies
\* both conditions and is classified SIMPLE.
C25_Witness ==
    /\ rcall.op = "classify"
    /\ rcall.is_simple
    /\ rcall.is_complex
    /\ rcall.intent.difficulty_level = "beginner"
    /\ rcall.intent.requires_math
    /\ rcall.intent.requires_code
    /\ rcall.out = "simple"


(***************************************************************************)
(* Properties of the results held in the cache.                            *)
(***************************************************************************)
\* C26: the results stored in the cache for a key do not change between
\* the put that stored them and a later hit: the return of a
\* multi_query_search call leaves every entry of the store, and so the
\* image list of every cached result, as it was.
C26_CachedUnchanged ==
    [][\A p \in Procs : MqsReturns(p) => store' = store]_vars


(***************************************************************************)
(* Properties of the usage counters.                                       *)
(***************************************************************************)
\* basic_queries + advanced_queries of the context of request p.
Counted(u) == u.basic_queries + u.advanced_queries

\* The step ends the request of p and its tracking context.
ContextEnds(p) == pc[p] = "done" /\ pc'[p] = "idle"

\* C28: within one tracking context basic_queries + advanced_queries
\* equals the number of provider calls search has attempted: the context
\* starts at zero with no call made; a search that hits the cache leaves
\* both counters and the number of calls as they are; a search that misses
\* makes one call and adds 1 to advanced_queries when the resolved depth
\* is "advanced", to basic_queries otherwise; and the end of the call,
\* failed or not, changes neither counter.
C28_UsageCountsCalls ==
    [][\A p \in Procs :
          /\ ~ContextEnds(p) =>
                 Counted(usage'[p]) - Counted(usage[p]) =
                     IF SearchStarts(p) THEN ncalls' - ncalls ELSE 0
          /\ ContextEnds(p) => usage'[p] = NoUsage
          /\ (SearchStarts(p) /\ srch'[p].state = "hit") =>
                 usage' = usage /\ ncalls' = ncalls
          /\ (SearchStarts(p) /\ srch'[p].state # "hit") =>
                 /\ ncalls' = ncalls + 1
                 /\ pc'[p] = "await"
                 /\ IF Resolved(p).depth = Advanced
                    THEN usage'[p] = [usage[p] EXCEPT !.advanced_queries = @ + 1]
                    ELSE usage'[p] = [usage[p] EXCEPT !.basic_queries = @ + 1]
          /\ CallEnds(p) => usage' = usage /\ ncalls' = ncalls]_vars

\* Of three searches of one request the two that missed were counted as
\* advanced and the third, a hit, was not counted.
C28_Witness ==
    \E p \in Procs :
        /\ Len(searched[p]) = 3
        /\ srch[p].state = "hit"
        /\ usage[p] = [basic_queries |-> 0, advanced_queries |-> 2]
        /\ ncalls = 2
        /\ fetched[p] # <<>>

\* A basic search was counted although its provider call failed.
C28_WitnessBasic ==
    \E p \in Procs :
        /\ srch[p].state = "error"
        /\ srch[p].resp = Exception
        /\ usage[p] = [basic_queries |-> 1, advanced_queries |-> 0]


(***************************************************************************)
(* Properties of empty results.                                            *)
(***************************************************************************)
\* The key of the search request p is about to make.
KeyOf(p, query) ==
    MakeKey(query, Resolved(p).depth, Resolved(p).max_results,
            Resolved(p).raw_content)

\* C29: a provider response with zero results is stored in the cache and
\* an identical search within ttl returns the empty list from the cache
\* without a provider call; the empty list search returns after an
\* exception is not stored, so the next identical search calls the
\* provider again.
C29_EmptyStoredErrorNot ==
    [][\A p \in Procs :
          /\ (CallEnds(p) /\ srch'[p].state = "ok" /\ srch'[p].ret = <<>>) =>
                 \E e \in LiveFor(store', now, srch[p].query, args[p].plan) :
                     e.ts = now /\ e.data = <<>>
          /\ (SearchStarts(p) /\
              \E e \in LiveFor(store, now, CurQuery(p), args[p].plan) :
                  e.data = <<>>) =>
                 /\ srch'[p].state = "hit"
                 /\ srch'[p].ret = <<>>
                 /\ ncalls' = ncalls
          /\ (CallEnds(p) /\ srch'[p].state = "error") =>
                 /\ srch'[p].ret = <<>>
                 /\ store' = store
                 /\ KeyOf(p, srch[p].query) \notin Keys(store')
          /\ (SearchStarts(p) /\ srch[p].state = "error"
                  /\ KeyOf(p, CurQuery(p)) = KeyOf(p, srch[p].query)) =>
                 /\ srch'[p].state = "awaiting"
                 /\ ncalls' = ncalls + 1]_vars

\* The empty list of a provider response was stored and a later search of
\* the same key returned it from the cache.
C29_Witness ==
    \E p \in Procs :
        /\ srch[p].state = "hit"
        /\ srch[p].ret = <<>>
        /\ ncalls = 1
        /\ \E i \in 1..Len(store) :
               /\ store[i].key = KeyOf(p, srch[p].query)
               /\ store[i].data = <<>>

\* After a provider call that raised, the next search of the same key
\* called the provider again.
C29_WitnessError ==
    \E p \in Procs :
        /\ Len(searched[p]) = 2
        /\ KeyOf(p, searched[p][1]) = KeyOf(p, searched[p][2])
        /\ srch[p].state = "awaiting"
        /\ srch[p].call = 2
        /\ fetched[p] = <<>>
        /\ store = <<>>


(***************************************************************************)
(* Properties of searches that interleave at the provider call.            *)
(***************************************************************************)
\* Another request waits for the provider with a call for the same key.
OtherAwaits(p, query) ==
    \E o \in Procs \ {p} :
        pc[o] = "await" /\ KeyOf(o, srch[o].query) = KeyOf(p, query)

\* C30: concurrent searches for one key are not coalesced: a search that
\* finds no live entry under its key calls the provider, also while
\* another request waits for the provider with a call for the same key;
\* each call that succeeds writes its results under the key, so the entry
\* of the key is the one written last; the store holds one entry per key
\* and at most max_size entries.
C30_NotCoalesced ==
    [][/\ \A i, j \in 1..Len(store') : store'[i].key = store'[j].key => i = j
       /\ Len(store') <= MaxSize
       /\ \A p \in Procs :
              /\ (SearchStarts(p) /\ OtherAwaits(p, CurQuery(p))
                      /\ LiveFor(store, now, CurQuery(p), args[p].plan) = {}) =>
                     /\ srch'[p].state = "awaiting"
                     /\ ncalls' = ncalls + 1
              /\ (CallEnds(p) /\ srch'[p].state = "ok") =>
                     \E i \in 1..Len(store') :
                         /\ store'[i].key = KeyOf(p, srch[p].query)
                         /\ store'[i].ts = now
                         /\ store'[i].data = srch'[p].ret]_vars

\* Both requests have missed the cache for one key and wait for their own
\* provider call.
C30_Witness ==
    /\ \A p \in Procs : pc[p] = "await"
    /\ KeyOf(1, srch[1].query) = KeyOf(2, srch[2].query)
    /\ srch[1].call # srch[2].call
    /\ ncalls = 2

\* Both calls have completed with different results: the cache holds one
\* entry for the key, with the results of one of them.
C30_WitnessAfter ==
    /\ \A p \in Procs : pc[p] = "done" /\ srch[p].state = "ok"
    /\ KeyOf(1, srch[1].query) = KeyOf(2, srch[2].query)
    /\ srch[1].ret # <<>>
    /\ srch[2].ret # <<>>
    /\ srch[1].at = srch[2].at
    /\ Len(store) = 1
    /\ store[1].key = KeyOf(1, srch[1].query)
    /\ store[1].data = srch[1].ret
    /\ srch[1].call = 2


\* Three calls for three keys have written to the cache, which holds
\* max_size entries.
C30_WitnessBound ==
    /\ ncalls = MaxSize + 1
    /\ Len(store) = MaxSize
    /\ \A p \in Procs : srch[p].state = "ok"
    /\ \A i \in 1..Len(store) : store[i].key # KeyOf(1, QA)

=============================================================================
